---- MODULE Spec2Model ----
(***************************************************************************)
(* A model of the file-processing core of CipherGUI (src/src/cipher_utils). *)
(*                                                                         *)
(* The state is the part of the filesystem the core touches (the working   *)
(* directory, one sub-directory and the private vault directory), the      *)
(* history log, and the last call with the value it returned.  Each entry  *)
(* point of cipher_utils is one action that runs the whole function.       *)
(*                                                                         *)
(* A path is a record [dir, name]: dir is "." (the working directory) or   *)
(* the name of a directory inside it; name is the file name as a sequence  *)
(* of tokens, so that "enc_" + name is <<"enc_">> \o name and "starts with *)
(* enc_" is a test on the first token.  Paths are canonical: there are no  *)
(* links and no two spellings of one path in this model, so                *)
(* std::filesystem::equivalent is equality of paths.                       *)
(***************************************************************************)
EXTENDS Integers, Sequences, FiniteSets, TLC

VARIABLES fs, history, call, ret, nops, xin, xpeg, xenc, xdec, xpc

vars == <<fs, history, call, ret, nops, xin, xpeg, xenc, xdec, xpc>>
fsvars == <<fs, history, call, ret, nops>>
xvars == <<xin, xpeg, xenc, xdec, xpc>>

(***************************************************************************)
(* Program constants.                                                      *)
(***************************************************************************)
MIN_PEG == 1
MAX_PEG == 255
HISTORY_FILE == "history.md"
PRIVATE_VAULT_DIR == ".private_vault"
ENC_PREFIX == "enc_"

(***************************************************************************)
(* Bounds of the model.  BUFFER_SIZE stands for the 4096-byte chunk of the *)
(* source, scaled down so that files of MaxLen bytes span several chunks;  *)
(* MaxOps is the number of calls in one run.                               *)
(***************************************************************************)
BUFFER_SIZE == 2
MaxLen == 3
MaxOps == 2

(***************************************************************************)
(* Byte arithmetic of the transform.                                       *)
(***************************************************************************)
\* C++ operator % on int: the result has the sign of the dividend.
CppRem(a, n) == IF a >= 0 THEN a % n ELSE 0 - ((0 - a) % n)

\* static_cast<unsigned char>(v): reduction modulo 2^8.
UChar(v) == v % 256

\* A faulty transform byte: no reduction modulo 256.
CoreByte_NoWrap(b, pegs, encrypt_mode) ==
    IF encrypt_mode THEN b + pegs ELSE b - pegs

\* A faulty transform byte: decryption adds the peg as encryption does.
CoreByte_DecryptAdds(b, pegs, encrypt_mode) ==
    UChar(CppRem(b + pegs, 256))

\* One byte of the loop body of process_file_core.
CoreByte(b, pegs, encrypt_mode) ==
    IF encrypt_mode
    THEN UChar(CppRem(b + pegs, 256))
    ELSE UChar(CppRem(b - pegs + 256, 256))

\* One byte of the loop body of process_content_caesar.
CaesarByte(uc, pegs, encrypt_mode) ==
    IF encrypt_mode
    THEN UChar(CppRem(uc + pegs, 256))
    ELSE UChar(CppRem(uc - pegs + 256, 256))

process_content_caesar(content, pegs, encrypt_mode) ==
    [i \in 1..Len(content) |-> CaesarByte(content[i], pegs, encrypt_mode)]

validate_peg_value(peg) == peg >= MIN_PEG /\ peg <= MAX_PEG

Min(a, b) == IF a < b THEN a ELSE b

(***************************************************************************)
(* Paths and the filesystem.                                               *)
(***************************************************************************)
Path(d, n) == [dir |-> d, name |-> n]
NoPath == Path("", <<>>)

filename(p) == p.name
\* parent_path(), with the empty parent replaced by "." as every caller does.
parent_dir(p) == p.dir
\* The directory entry that a directory name denotes.
DirEntry(d) == Path(".", <<d>>)

FileNode(data) == [kind |-> "file", data |-> data, writable |-> TRUE]
DirNode(w) == [kind |-> "dir", data |-> <<>>, writable |-> w]

exists(f, p) == p \in DOMAIN f
is_regular_file(f, p) == exists(f, p) /\ f[p].kind = "file"
\* The working directory always exists and is writable.
dir_exists(f, d) == IF d = "." THEN TRUE ELSE exists(f, DirEntry(d))
is_directory(f, d) ==
    IF d = "." THEN TRUE ELSE exists(f, DirEntry(d)) /\ f[DirEntry(d)].kind = "dir"
\* A directory in which entries can be created, replaced and removed.
dir_writable(f, d) ==
    IF d = "." THEN TRUE ELSE is_directory(f, d) /\ f[DirEntry(d)].writable
file_size(f, p) == Len(f[p].data)
equivalent(p, q) == p = q

\* The filesystem with p bound to node n, and with p removed.
Put(f, p, n) == [q \in DOMAIN f \cup {p} |-> IF q = p THEN n ELSE f[q]]
Del(f, p) == [q \in DOMAIN f \ {p} |-> f[q]]

\* Whether std::ofstream(p), opened with truncation, opens.
can_open_out(f, p) ==
    IF exists(f, p) THEN dir_writable(f, parent_dir(p)) /\ f[p].kind = "file"
    ELSE dir_writable(f, parent_dir(p))
\* Whether std::ifstream(p) opens.
can_open_in(f, p) == is_regular_file(f, p)

\* std::filesystem::remove without an error report: a no-op when it fails.
remove(f, p) ==
    IF is_regular_file(f, p) /\ dir_writable(f, parent_dir(p)) THEN Del(f, p) ELSE f

(***************************************************************************)
(* The history log: a sequence of records, one per line of the file.       *)
(***************************************************************************)
LogRec(kind, input, output, pegs) ==
    [kind |-> kind, input |-> input, output |-> output, pegs |-> pegs]

(***************************************************************************)
(* Environment faults.  A fault names the one filesystem call of the       *)
(* running operation that the environment makes fail: the read or the      *)
(* write of chunk number `at` in process_file_core, the create_directory   *)
(* of the vault, the rename into the vault, the copy out of the vault,     *)
(* every open of the history file, or the file_size query of the input.    *)
(***************************************************************************)
Fault(kind, at) == [kind |-> kind, at |-> at]
NoFault == Fault("none", 0)

\* The history file is opened for appending; when it cannot be opened the
\* function returns without writing.
can_open_log(fault) == fault.kind # "log"

log_operation(fault, h, operation_type, input_file, output_file, pegs) ==
    IF ~can_open_log(fault) THEN h
    ELSE Append(h, LogRec(operation_type, input_file, output_file, pegs))

log_event(fault, h, event_type, a, b) ==
    IF ~can_open_log(fault) THEN h
    ELSE Append(h, LogRec(event_type, a, b, 0))

(***************************************************************************)
(* Validation.                                                             *)
(***************************************************************************)
\* A faulty validator: a zero-length file is accepted.
validate_input_file_AcceptsEmpty(f, p, fault) ==
    /\ exists(f, p)
    /\ is_regular_file(f, p)
    /\ fault.kind # "size"

validate_input_file(f, p, fault) ==
    /\ exists(f, p)
    /\ is_regular_file(f, p)
    /\ fault.kind # "size"
    /\ file_size(f, p) # 0

\* The writability probe: create the marker file, close it, remove it.
\* Yields [ok, fs].
write_probe(f, temp_file_path) ==
    IF ~can_open_out(f, temp_file_path)
    THEN [ok |-> FALSE, fs |-> f]
    ELSE [ok |-> TRUE, fs |-> remove(Put(f, temp_file_path, FileNode(<<>>)), temp_file_path)]

probe_name(prefix, out_path) ==
    Path(parent_dir(out_path), <<prefix>> \o filename(out_path) \o <<".tmp">>)

\* A faulty validator: an output path that exists already is refused.
validate_derived_output_file_RefusesExisting(f, out_path, in_path) ==
    IF exists(f, out_path)
    THEN [ok |-> FALSE, fs |-> f]
    ELSE IF ~dir_exists(f, parent_dir(out_path)) \/ ~is_directory(f, parent_dir(out_path))
    THEN [ok |-> FALSE, fs |-> f]
    ELSE write_probe(f, probe_name("temp_write_check_derived_", out_path))

validate_derived_output_file(f, out_path, in_path) ==
    IF exists(f, out_path) /\ exists(f, in_path) /\ equivalent(out_path, in_path)
    THEN [ok |-> FALSE, fs |-> f]
    ELSE IF ~(exists(f, out_path) /\ exists(f, in_path)) /\ out_path = in_path
    THEN [ok |-> FALSE, fs |-> f]
    ELSE IF ~dir_exists(f, parent_dir(out_path)) \/ ~is_directory(f, parent_dir(out_path))
    THEN [ok |-> FALSE, fs |-> f]
    ELSE IF exists(f, out_path) /\ ~is_regular_file(f, out_path)
    THEN [ok |-> FALSE, fs |-> f]
    ELSE write_probe(f, probe_name("temp_write_check_derived_", out_path))

derived_output(p) == Path(parent_dir(p), <<ENC_PREFIX>> \o filename(p))

\* A faulty validation: writability is tested by opening the output file
\* itself, before the peg is checked.
validate_encryption_params_new_OpensOutput(f, input_file, pegs, fault) ==
    IF ~validate_input_file(f, input_file, fault)
    THEN [ok |-> FALSE, fs |-> f]
    ELSE LET d == validate_derived_output_file(f, derived_output(input_file), input_file)
         IN  IF ~d.ok THEN d
             ELSE IF ~validate_peg_value(pegs)
             THEN [ok |-> FALSE, fs |-> Put(d.fs, derived_output(input_file), FileNode(<<>>))]
             ELSE d

validate_encryption_params_new(f, input_file, pegs, fault) ==
    IF ~validate_input_file(f, input_file, fault)
    THEN [ok |-> FALSE, fs |-> f]
    ELSE IF ~validate_peg_value(pegs)
    THEN [ok |-> FALSE, fs |-> f]
    ELSE validate_derived_output_file(f, derived_output(input_file), input_file)

validate_destination_path(f, dest_path, source_filename_in_vault) ==
    LET source_in_vault_full_path == Path(PRIVATE_VAULT_DIR, source_filename_in_vault)
    IN  IF /\ exists(f, dest_path)
           /\ exists(f, source_in_vault_full_path)
           /\ equivalent(dest_path, source_in_vault_full_path)
        THEN [ok |-> FALSE, fs |-> f]
        ELSE IF ~dir_exists(f, parent_dir(dest_path)) \/ ~is_directory(f, parent_dir(dest_path))
        THEN [ok |-> FALSE, fs |-> f]
        ELSE IF exists(f, dest_path) /\ ~is_regular_file(f, dest_path)
        THEN [ok |-> FALSE, fs |-> f]
        ELSE write_probe(f, probe_name("temp_write_check_retrieve_", dest_path))

(***************************************************************************)
(* The chunked transform.  Every operation yields [ok, fs, history]: the   *)
(* value returned and the filesystem and log it leaves.                    *)
(***************************************************************************)
Result(ok, f, h) == [ok |-> ok, fs |-> f, history |-> h]

\* A faulty loop: a read that fills less than the buffer is taken for the
\* end of the file, and its bytes are not written.
RECURSIVE core_loop_DropsPartialChunk(_, _, _, _, _, _)
core_loop_DropsPartialChunk(indata, pos, outdata, pegs, encrypt_mode, fault) ==
    LET chunk_no == (pos \div BUFFER_SIZE) + 1
        bad == fault.kind = "read" /\ fault.at = chunk_no
        bytes_read == IF bad THEN 0 ELSE Min(BUFFER_SIZE, Len(indata) - pos)
        buffer_vec == [i \in 1..bytes_read |-> CoreByte(indata[pos + i], pegs, encrypt_mode)]
    IN  IF bytes_read < BUFFER_SIZE
        THEN [ok |-> ~bad, data |-> outdata]
        ELSE IF fault.kind = "write" /\ fault.at = chunk_no
        THEN [ok |-> FALSE, data |-> outdata]
        ELSE core_loop_DropsPartialChunk(indata, pos + bytes_read, outdata \o buffer_vec,
                                         pegs, encrypt_mode, fault)

\* A faulty loop: the result of out.write is not looked at, and the loop
\* goes on to the next chunk.
RECURSIVE core_loop_IgnoresWriteError(_, _, _, _, _, _)
core_loop_IgnoresWriteError(indata, pos, outdata, pegs, encrypt_mode, fault) ==
    LET chunk_no == (pos \div BUFFER_SIZE) + 1
        bad == fault.kind = "read" /\ fault.at = chunk_no
        bytes_read == IF bad THEN 0 ELSE Min(BUFFER_SIZE, Len(indata) - pos)
        buffer_vec == [i \in 1..bytes_read |-> CoreByte(indata[pos + i], pegs, encrypt_mode)]
    IN  IF bytes_read = 0
        THEN [ok |-> ~bad, data |-> outdata]
        ELSE core_loop_IgnoresWriteError(indata, pos + bytes_read,
                 IF fault.kind = "write" /\ fault.at = chunk_no
                 THEN outdata ELSE outdata \o buffer_vec,
                 pegs, encrypt_mode, fault)

\* The while(true) loop of process_file_core, from the chunk that starts
\* after `pos` bytes, with `outdata` written so far.  Yields [ok, data].
RECURSIVE core_loop(_, _, _, _, _, _)
core_loop(indata, pos, outdata, pegs, encrypt_mode, fault) ==
    LET chunk_no == (pos \div BUFFER_SIZE) + 1
        bad == fault.kind = "read" /\ fault.at = chunk_no
        bytes_read == IF bad THEN 0 ELSE Min(BUFFER_SIZE, Len(indata) - pos)
        buffer_vec == [i \in 1..bytes_read |-> CoreByte(indata[pos + i], pegs, encrypt_mode)]
    IN  IF bytes_read = 0
        THEN [ok |-> ~bad, data |-> outdata]
        ELSE IF fault.kind = "write" /\ fault.at = chunk_no
        THEN [ok |-> FALSE, data |-> outdata]
        ELSE core_loop(indata, pos + bytes_read, outdata \o buffer_vec,
                       pegs, encrypt_mode, fault)

\* A faulty process_file_core: the operation is logged whether or not the
\* loop succeeded.
process_file_core_LogsOnFailure(f, h, input_file, output_file, pegs, encrypt_mode, fault) ==
    IF ~can_open_in(f, input_file)
    THEN Result(FALSE, f, h)
    ELSE IF ~can_open_out(f, output_file)
    THEN Result(FALSE, f, h)
    ELSE LET f1 == Put(f, output_file, FileNode(<<>>))
             r == core_loop(f1[input_file].data, 0, <<>>, pegs, encrypt_mode, fault)
         IN  Result(r.ok, Put(f1, output_file, FileNode(r.data)),
                    log_operation(fault, h, IF encrypt_mode THEN "ENCRYPT" ELSE "DECRYPT",
                                  input_file, output_file, pegs))

process_file_core(f, h, input_file, output_file, pegs, encrypt_mode, fault) ==
    IF ~can_open_in(f, input_file)
    THEN Result(FALSE, f, h)
    ELSE IF ~can_open_out(f, output_file)
    THEN Result(FALSE, f, h)
    ELSE LET \* the output is truncated before the first read of the input
             f1 == Put(f, output_file, FileNode(<<>>))
             r == core_loop(f1[input_file].data, 0, <<>>, pegs, encrypt_mode, fault)
             f2 == Put(f1, output_file, FileNode(r.data))
         IN  IF r.ok
             THEN Result(TRUE, f2,
                         log_operation(fault, h, IF encrypt_mode THEN "ENCRYPT" ELSE "DECRYPT",
                                       input_file, output_file, pegs))
             ELSE Result(FALSE, f2, h)

decrypt_file(f, h, input_file, output_file, pegs, fault) ==
    process_file_core(f, h, input_file, output_file, pegs, FALSE, fault)

(***************************************************************************)
(* The vault.                                                              *)
(***************************************************************************)
VaultEntry == DirEntry(PRIVATE_VAULT_DIR)
InVault(n) == Path(PRIVATE_VAULT_DIR, n)

\* A faulty ensure_private_vault_exists: a vault path that is not a
\* directory is replaced by a new directory.
ensure_private_vault_exists_ReplacesFile(f, fault) ==
    IF ~exists(f, VaultEntry) \/ ~is_directory(f, PRIVATE_VAULT_DIR)
    THEN IF fault.kind = "mkdir"
         THEN [ok |-> FALSE, fs |-> f]
         ELSE [ok |-> TRUE, fs |-> Put(f, VaultEntry, DirNode(TRUE))]
    ELSE [ok |-> TRUE, fs |-> f]

\* Yields [ok, fs].
ensure_private_vault_exists(f, fault) ==
    IF ~exists(f, VaultEntry)
    THEN IF fault.kind = "mkdir"
         THEN [ok |-> FALSE, fs |-> f]
         ELSE [ok |-> TRUE, fs |-> Put(f, VaultEntry, DirNode(TRUE))]
    ELSE IF ~is_directory(f, PRIVATE_VAULT_DIR)
    THEN [ok |-> FALSE, fs |-> f]
    ELSE [ok |-> TRUE, fs |-> f]

\* std::filesystem::rename(from, to, ec) onto a path that does not exist.
rename_fails(f, from, to, fault) ==
    \/ fault.kind = "rename"
    \/ ~dir_writable(f, parent_dir(from))
    \/ ~dir_writable(f, parent_dir(to))

\* A faulty rename: an existing destination is left as it is and the source
\* stays in place, with no error reported.
rename_KeepsExisting(f, from, to) ==
    IF exists(f, to) THEN f ELSE Put(Del(f, from), to, f[from])

\* std::filesystem::rename(from, to, ec) that succeeds: any file at `to` is
\* replaced.
rename(f, from, to) == Put(Del(f, from), to, f[from])

\* A faulty move_to_vault: an existing vault entry is overwritten.
move_to_vault_Overwrites(f, h, original_filepath, fault) ==
    LET e == ensure_private_vault_exists(f, fault)
        destination_in_vault == InVault(filename(original_filepath))
    IN  IF ~e.ok
        THEN Result(FALSE, e.fs, h)
        ELSE IF ~exists(e.fs, original_filepath) \/ ~is_regular_file(e.fs, original_filepath)
        THEN Result(FALSE, e.fs, h)
        ELSE IF rename_fails(e.fs, original_filepath, destination_in_vault, fault)
        THEN Result(FALSE, e.fs, h)
        ELSE Result(TRUE, rename(e.fs, original_filepath, destination_in_vault),
                    log_event(fault, h, "VAULT_STORE", Path("", filename(original_filepath)), NoPath))

\* A faulty move_to_vault: the original is copied and stays in place.
move_to_vault_Copies(f, h, original_filepath, fault) ==
    LET e == ensure_private_vault_exists(f, fault)
        destination_in_vault == InVault(filename(original_filepath))
    IN  IF ~e.ok
        THEN Result(FALSE, e.fs, h)
        ELSE IF ~exists(e.fs, original_filepath) \/ ~is_regular_file(e.fs, original_filepath)
        THEN Result(FALSE, e.fs, h)
        ELSE IF exists(e.fs, destination_in_vault)
        THEN Result(FALSE, e.fs, h)
        ELSE IF rename_fails(e.fs, original_filepath, destination_in_vault, fault)
        THEN Result(FALSE, e.fs, h)
        ELSE Result(TRUE, Put(e.fs, destination_in_vault, e.fs[original_filepath]),
                    log_event(fault, h, "VAULT_STORE", Path("", filename(original_filepath)), NoPath))

move_to_vault(f, h, original_filepath, fault) ==
    LET e == ensure_private_vault_exists(f, fault)
        destination_in_vault == InVault(filename(original_filepath))
    IN  IF ~e.ok
        THEN Result(FALSE, e.fs, h)
        ELSE IF ~exists(e.fs, original_filepath) \/ ~is_regular_file(e.fs, original_filepath)
        THEN Result(FALSE, e.fs, h)
        ELSE IF exists(e.fs, destination_in_vault)
        THEN Result(FALSE, e.fs, h)
        ELSE IF rename_fails(e.fs, original_filepath, destination_in_vault, fault)
        THEN Result(FALSE, e.fs, h)
        ELSE Result(TRUE, rename(e.fs, original_filepath, destination_in_vault),
                    log_event(fault, h, "VAULT_STORE", Path("", filename(original_filepath)), NoPath))

starts_with_enc(n) == Len(n) >= 1 /\ n[1] = ENC_PREFIX

\* A faulty encrypt_file: the enc_ prefix of the input is not checked.
encrypt_file_NoPrefixCheck(f, h, input_file, pegs, fault) ==
    LET v == validate_encryption_params_new(f, input_file, pegs, fault)
        output_file == derived_output(input_file)
        c == process_file_core(v.fs, h, input_file, output_file, pegs, TRUE, fault)
        m == move_to_vault(c.fs, c.history, input_file, fault)
    IN  IF ~v.ok
        THEN Result(FALSE, v.fs, h)
        ELSE IF ~c.ok
        THEN Result(FALSE, c.fs, log_event(fault, c.history, "ENCRYPT_FAIL", input_file, NoPath))
        ELSE IF ~m.ok
        THEN Result(TRUE, m.fs, log_event(fault, m.history, "VAULT_FAIL", input_file, output_file))
        ELSE Result(TRUE, m.fs, m.history)

\* A faulty encrypt_file: a failed vault move makes the call fail.
encrypt_file_VaultFailIsError(f, h, input_file, pegs, fault) ==
    IF starts_with_enc(filename(input_file))
    THEN Result(FALSE, f, log_event(fault, h, "ENCRYPT_FAIL", input_file, NoPath))
    ELSE LET v == validate_encryption_params_new(f, input_file, pegs, fault)
             output_file == derived_output(input_file)
             c == process_file_core(v.fs, h, input_file, output_file, pegs, TRUE, fault)
             m == move_to_vault(c.fs, c.history, input_file, fault)
         IN  IF ~v.ok
             THEN Result(FALSE, v.fs, h)
             ELSE IF ~c.ok
             THEN Result(FALSE, c.fs, log_event(fault, c.history, "ENCRYPT_FAIL", input_file, NoPath))
             ELSE IF ~m.ok
             THEN Result(FALSE, m.fs, log_event(fault, m.history, "VAULT_FAIL", input_file, output_file))
             ELSE Result(TRUE, m.fs, m.history)

encrypt_file(f, h, input_file, pegs, fault) ==
    IF starts_with_enc(filename(input_file))
    THEN Result(FALSE, f, log_event(fault, h, "ENCRYPT_FAIL", input_file, NoPath))
    ELSE LET v == validate_encryption_params_new(f, input_file, pegs, fault)
             output_file == derived_output(input_file)
             c == process_file_core(v.fs, h, input_file, output_file, pegs, TRUE, fault)
             m == move_to_vault(c.fs, c.history, input_file, fault)
         IN  IF ~v.ok
             THEN Result(FALSE, v.fs, h)
             ELSE IF ~c.ok
             THEN Result(FALSE, c.fs, log_event(fault, c.history, "ENCRYPT_FAIL", input_file, NoPath))
             ELSE IF ~m.ok
             THEN Result(TRUE, m.fs, log_event(fault, m.history, "VAULT_FAIL", input_file, output_file))
             ELSE Result(TRUE, m.fs, m.history)

\* std::filesystem::copy_file(from, to, overwrite_existing, ec).  A copy that
\* fails part-way may leave `to` created or truncated.
copy_fails(f, from, to, fault) ==
    \/ fault.kind = "copy"
    \/ ~is_regular_file(f, from)
    \/ (exists(f, to) /\ equivalent(from, to))
    \/ ~can_open_out(f, to)

\* A faulty retrieve_from_vault: the vault entry is moved out.
retrieve_from_vault_Moves(f, h, filename_in_vault, destination_path, fault) ==
    LET e == ensure_private_vault_exists(f, fault)
        source_in_vault == InVault(filename_in_vault)
        v == validate_destination_path(e.fs, destination_path, filename_in_vault)
    IN  IF ~e.ok
        THEN Result(FALSE, e.fs, h)
        ELSE IF ~exists(e.fs, source_in_vault) \/ ~is_regular_file(e.fs, source_in_vault)
        THEN Result(FALSE, e.fs, h)
        ELSE IF ~v.ok
        THEN Result(FALSE, v.fs, h)
        ELSE IF copy_fails(v.fs, source_in_vault, destination_path, fault)
        THEN Result(FALSE, v.fs,
                    log_event(fault, h, "VAULT_RETRIEVE_FAIL", Path("", filename_in_vault), destination_path))
        ELSE Result(TRUE,
                    rename(Del(v.fs, destination_path), source_in_vault, destination_path),
                    log_event(fault, h, "VAULT_RETRIEVE", Path("", filename_in_vault), destination_path))

\* A faulty retrieve_from_vault: an existing destination is kept.
retrieve_from_vault_SkipExisting(f, h, filename_in_vault, destination_path, fault) ==
    LET e == ensure_private_vault_exists(f, fault)
        source_in_vault == InVault(filename_in_vault)
        v == validate_destination_path(e.fs, destination_path, filename_in_vault)
    IN  IF ~e.ok
        THEN Result(FALSE, e.fs, h)
        ELSE IF ~exists(e.fs, source_in_vault) \/ ~is_regular_file(e.fs, source_in_vault)
        THEN Result(FALSE, e.fs, h)
        ELSE IF ~v.ok
        THEN Result(FALSE, v.fs, h)
        ELSE IF copy_fails(v.fs, source_in_vault, destination_path, fault)
        THEN Result(FALSE, v.fs,
                    log_event(fault, h, "VAULT_RETRIEVE_FAIL", Path("", filename_in_vault), destination_path))
        ELSE Result(TRUE,
                    IF exists(v.fs, destination_path) THEN v.fs
                    ELSE Put(v.fs, destination_path, FileNode(v.fs[source_in_vault].data)),
                    log_event(fault, h, "VAULT_RETRIEVE", Path("", filename_in_vault), destination_path))

retrieve_from_vault(f, h, filename_in_vault, destination_path, fault) ==
    LET e == ensure_private_vault_exists(f, fault)
        source_in_vault == InVault(filename_in_vault)
        v == validate_destination_path(e.fs, destination_path, filename_in_vault)
    IN  IF ~e.ok
        THEN Result(FALSE, e.fs, h)
        ELSE IF ~exists(e.fs, source_in_vault) \/ ~is_regular_file(e.fs, source_in_vault)
        THEN Result(FALSE, e.fs, h)
        ELSE IF ~v.ok
        THEN Result(FALSE, v.fs, h)
        ELSE IF copy_fails(v.fs, source_in_vault, destination_path, fault)
        THEN Result(FALSE,
                    IF fault.at = 1 /\ can_open_out(v.fs, destination_path)
                    THEN Put(v.fs, destination_path, FileNode(<<>>))
                    ELSE v.fs,
                    log_event(fault, h, "VAULT_RETRIEVE_FAIL", Path("", filename_in_vault), destination_path))
        ELSE Result(TRUE,
                    Put(v.fs, destination_path, FileNode(v.fs[source_in_vault].data)),
                    log_event(fault, h, "VAULT_RETRIEVE", Path("", filename_in_vault), destination_path))

(***************************************************************************)
(* The filesystem specification: the entry points called in any order with *)
(* any arguments from a small universe of paths, pegs and faults.          *)
(***************************************************************************)
NameA == <<"a">>
NameEncA == <<ENC_PREFIX, "a">>
SUB_DIR == "sub"

\* File contents the environment provides.
DataLong == <<0, 255, 7>>
DataShort == <<9>>
DataVault == <<42>>

Pegs == {0, 255, 256}
EncryptInputs == {Path(".", NameA), Path(SUB_DIR, NameA), Path(".", NameEncA)}
DecryptInputs == {Path(".", NameEncA)}
DecryptOutputs == {Path(".", NameA), Path(".", NameEncA), InVault(NameA)}
MoveInputs == {Path(".", NameA), Path(SUB_DIR, NameA), Path(".", NameEncA)}
VaultNames == {NameA, NameEncA}
Destinations == {Path(".", NameA), Path(SUB_DIR, NameA), InVault(NameA), InVault(NameEncA)}
UserPaths == {Path(".", NameA), Path(SUB_DIR, NameA)}
UserData == {<<>>, DataShort}

\* A call runs with any peg and no fault, or with peg MAX_PEG and a fault.
CoreFaults == {Fault("read", 2), Fault("write", 2)}
VaultFaults == {Fault("mkdir", 0), Fault("rename", 0)}
CopyFaults == {Fault("copy", 0), Fault("copy", 1)}
LogFault == Fault("log", 0)
SizeFault == Fault("size", 0)
PegFaults(faults) == (Pegs \X {NoFault}) \cup ({MAX_PEG} \X faults)

CallRec(op, input, output, pegs, fault) ==
    [op |-> op, input |-> input, output |-> output, pegs |-> pegs, fault |-> fault]
NoCall == CallRec("none", NoPath, NoPath, 0, NoFault)

EmptyFs == <<>>

\* The initial filesystems: ./a always; sub absent, writable or read-only,
\* holding its own a; the vault path absent, an empty directory, a directory
\* holding an entry a, or a regular file.
SubChoices == {"absent", "rw", "ro"}
VaultChoices == {"absent", "empty", "holds_a", "file"}

InitFs(sub, vault) ==
    LET f0 == Put(EmptyFs, Path(".", NameA), FileNode(DataLong))
        f1 == IF sub = "absent" THEN f0
              ELSE Put(Put(f0, DirEntry(SUB_DIR), DirNode(sub = "rw")),
                       Path(SUB_DIR, NameA), FileNode(DataShort))
        f2 == IF vault = "absent" THEN f1
              ELSE IF vault = "file" THEN Put(f1, VaultEntry, FileNode(DataShort))
              ELSE Put(f1, VaultEntry, DirNode(TRUE))
    IN  IF vault = "holds_a" THEN Put(f2, InVault(NameA), FileNode(DataVault)) ELSE f2

XIdle ==
    /\ xin = <<>>
    /\ xpeg = MIN_PEG
    /\ xenc = <<>>
    /\ xdec = <<>>
    /\ xpc = "off"

Init ==
    /\ \E sub \in SubChoices, vault \in VaultChoices : fs = InitFs(sub, vault)
    /\ history = <<>>
    /\ call = NoCall
    /\ ret = TRUE
    /\ nops = 0
    /\ XIdle

Returns(r, c) ==
    /\ nops' = nops + 1
    /\ fs' = r.fs
    /\ history' = r.history
    /\ ret' = r.ok
    /\ call' = c
    /\ UNCHANGED xvars

do_encrypt_file(p, pegs, fault) ==
    /\ nops < MaxOps
    /\ Returns(encrypt_file(fs, history, p, pegs, fault),
               CallRec("encrypt_file", p, derived_output(p), pegs, fault))

do_decrypt_file(i, o, pegs, fault) ==
    /\ nops < MaxOps
    /\ Returns(decrypt_file(fs, history, i, o, pegs, fault),
               CallRec("decrypt_file", i, o, pegs, fault))

do_move_to_vault(p, fault) ==
    /\ nops < MaxOps
    /\ Returns(move_to_vault(fs, history, p, fault),
               CallRec("move_to_vault", p, InVault(filename(p)), 0, fault))

do_retrieve_from_vault(n, dest, fault) ==
    /\ nops < MaxOps
    /\ Returns(retrieve_from_vault(fs, history, n, dest, fault),
               CallRec("retrieve_from_vault", InVault(n), dest, 0, fault))

do_ensure_private_vault_exists(fault) ==
    /\ nops < MaxOps
    /\ LET e == ensure_private_vault_exists(fs, fault)
       IN  Returns(Result(e.ok, e.fs, history),
                   CallRec("ensure_private_vault_exists", NoPath, NoPath, 0, fault))

\* The user creates or replaces a file outside the program.
user_writes(p, data) ==
    /\ nops < MaxOps
    /\ can_open_out(fs, p)
    /\ Returns(Result(TRUE, Put(fs, p, FileNode(data)), history),
               CallRec("user_writes", p, NoPath, 0, NoFault))

Next ==
    \/ \E p \in EncryptInputs, kf \in PegFaults(CoreFaults \cup VaultFaults \cup {LogFault, SizeFault}) :
          do_encrypt_file(p, kf[1], kf[2])
    \/ \E i \in DecryptInputs, o \in DecryptOutputs, kf \in PegFaults(CoreFaults \cup {LogFault}) :
          do_decrypt_file(i, o, kf[1], kf[2])
    \/ \E p \in MoveInputs, ft \in {NoFault, LogFault} \cup VaultFaults : do_move_to_vault(p, ft)
    \/ \E n \in VaultNames, d \in Destinations, ft \in {NoFault, LogFault} \cup CopyFaults :
          do_retrieve_from_vault(n, d, ft)
    \/ \E ft \in {NoFault, Fault("mkdir", 0)} : do_ensure_private_vault_exists(ft)
    \/ \E p \in UserPaths, d \in UserData : user_writes(p, d)

Spec == Init /\ [][Next]_vars

(***************************************************************************)
(* The transform specification: one input and one peg, drawn in the        *)
(* initial state, encrypted and then decrypted, through files              *)
(* (encrypt_file, then decrypt_file on its output) or in memory            *)
(* (process_content_caesar twice).                                         *)
(***************************************************************************)
ByteSample == {0, 1, 128, 255}
PegSample == {MIN_PEG, 2, 128, MAX_PEG}

RECURSIVE SeqsUpTo(_, _)
SeqsUpTo(S, n) ==
    IF n = 0 THEN {<<>>}
    ELSE LET shorter == SeqsUpTo(S, n - 1)
         IN  shorter \cup {Append(x, b) : x \in {y \in shorter : Len(y) = n - 1}, b \in S}

XPlain == Path(".", NameA)
XDecrypted == Path(".", <<"out">>)

XInit ==
    /\ xin \in SeqsUpTo(ByteSample, MaxLen)
    /\ xpeg \in PegSample
    /\ xenc = <<>>
    /\ xdec = <<>>
    /\ xpc = "start"
    /\ fs = EmptyFs
    /\ history = <<>>
    /\ call = NoCall
    /\ ret = TRUE
    /\ nops = 0

\* encrypt_file on a directory that holds only the input.
XFileEncrypt ==
    /\ xpc = "start"
    /\ LET r == encrypt_file(Put(EmptyFs, XPlain, FileNode(xin)), <<>>, XPlain, xpeg, NoFault)
       IN  /\ r.ok
           /\ xenc' = r.fs[derived_output(XPlain)].data
    /\ xpc' = "file_enc"
    /\ UNCHANGED <<xin, xpeg, xdec, fsvars>>

\* decrypt_file on the file that encrypt_file wrote.
XFileDecrypt ==
    /\ xpc = "file_enc"
    /\ LET r == decrypt_file(Put(EmptyFs, derived_output(XPlain), FileNode(xenc)), <<>>,
                             derived_output(XPlain), XDecrypted, xpeg, NoFault)
       IN  /\ r.ok
           /\ xdec' = r.fs[XDecrypted].data
    /\ xpc' = "file_dec"
    /\ UNCHANGED <<xin, xpeg, xenc, fsvars>>

XMemEncrypt ==
    /\ xpc = "start"
    /\ xenc' = process_content_caesar(xin, xpeg, TRUE)
    /\ xpc' = "mem_enc"
    /\ UNCHANGED <<xin, xpeg, xdec, fsvars>>

XMemDecrypt ==
    /\ xpc = "mem_enc"
    /\ xdec' = process_content_caesar(xenc, xpeg, FALSE)
    /\ xpc' = "mem_dec"
    /\ UNCHANGED <<xin, xpeg, xenc, fsvars>>

XNext == XFileEncrypt \/ XFileDecrypt \/ XMemEncrypt \/ XMemDecrypt

SpecCipher == XInit /\ [][XNext]_vars

(***************************************************************************)
(* Properties of the transform (checked under SpecCipher).                 *)
(***************************************************************************)

\* C1: for every input x and every peg k in [MIN_PEG, MAX_PEG], decrypting
\* the encryption of x with the same k yields exactly x, through
\* encrypt_file and decrypt_file and through process_content_caesar.
C1_DecryptInvertsEncrypt ==
    xpc \in {"file_dec", "mem_dec"} => xdec = xin

\* A multi-chunk file whose bytes wrap around 255 has gone through
\* encrypt_file and decrypt_file.
C1_Witness ==
    /\ xpc = "file_dec"
    /\ Len(xin) > BUFFER_SIZE
    /\ \E i \in 1..Len(xin) : xin[i] + xpeg > 255
    /\ xdec = xin
    /\ xenc # xin

\* C2: the output of the transform has the length of the input; byte i of
\* the encryption is (in[i] + k) mod 256 and byte i of the decryption is
\* (in[i] - k + 256) mod 256, each a value in 0..255.
C2_ByteFormula ==
    /\ xpc \in {"file_enc", "mem_enc", "file_dec", "mem_dec"} =>
          /\ Len(xenc) = Len(xin)
          /\ \A i \in 1..Len(xin) :
                /\ xenc[i] = (xin[i] + xpeg) % 256
                /\ xenc[i] \in 0..255
    /\ xpc \in {"file_dec", "mem_dec"} =>
          /\ Len(xdec) = Len(xenc)
          /\ \A i \in 1..Len(xenc) :
                /\ xdec[i] = (xenc[i] - xpeg + 256) % 256
                /\ xdec[i] \in 0..255

\* A file has been encrypted with a byte that wraps (255 + k) and one that
\* does not (0 + k).
C2_Witness ==
    /\ xpc = "file_enc"
    /\ \E i, j \in 1..Len(xin) :
          /\ xin[i] = 255 /\ xenc[i] = xpeg - 1
          /\ xin[j] = 0 /\ xenc[j] = xpeg

(***************************************************************************)
(* Properties of the file operations (checked under Spec).  A step of the  *)
(* specification is one call: call' names the function and its arguments,  *)
(* ret' the value returned, fs and history the state before the call, fs'  *)
(* and history' the state after it.  The caller's paths are user files in  *)
(* the working directory, the sub-directory and the vault; the history     *)
(* file and the marker files of the writability probe are not among them.  *)
(***************************************************************************)
\* Path p is absent in both filesystems, or bound to the same node in both.
SameAt(f, g, p) ==
    IF exists(f, p) THEN exists(g, p) /\ f[p] = g[p] ELSE ~exists(g, p)

\* The regular files inside the vault directory.
VaultFiles(f) == {q \in DOMAIN f : q.dir = PRIVATE_VAULT_DIR /\ f[q].kind = "file"}
SameVaultFiles(f, g) ==
    /\ VaultFiles(f) = VaultFiles(g)
    /\ \A q \in VaultFiles(f) : f[q] = g[q]

LastEvent(h) == IF Len(h) = 0 THEN "none" ELSE h[Len(h)].kind

\* The bytes that decrypt_file writes for the file at path p with peg k.
DecryptedBytes(f, p, k) ==
    LET scratch == Path(".", <<"scratch">>)
    IN  decrypt_file(f, <<>>, p, scratch, k, NoFault).fs[scratch].data

\* What C3 asks of a call encrypt_file(p, k): success, enc_<base(p)> beside
\* p decrypting to p's content, p gone, the vault holding base(p) with p's
\* content.
C3_Post ==
    LET p == call'.input
        out == derived_output(p)
        v == InVault(filename(p))
    IN  /\ ret' = TRUE
        /\ is_regular_file(fs', out)
        /\ DecryptedBytes(fs', out, call'.pegs) = fs[p].data
        /\ ~exists(fs', p)
        /\ is_regular_file(fs', v)
        /\ fs'[v].data = fs[p].data

\* The precondition C3 states, for a call during which no filesystem call
\* fails.
C3_Pre ==
    LET p == call'.input
    IN  /\ call'.op = "encrypt_file"
        /\ call'.fault = NoFault
        /\ is_regular_file(fs, p)
        /\ file_size(fs, p) # 0
        /\ ~starts_with_enc(filename(p))
        /\ validate_peg_value(call'.pegs)
        /\ dir_writable(fs, parent_dir(p))
        /\ ~exists(fs, InVault(filename(p)))

C4_TransformOkMoveFails ==
    LET p == call'.input
        v == validate_encryption_params_new(fs, p, call'.pegs, call'.fault)
        c == process_file_core(v.fs, history, p, derived_output(p), call'.pegs, TRUE, call'.fault)
        m == move_to_vault(c.fs, c.history, p, call'.fault)
    IN  /\ call'.op = "encrypt_file"
        /\ ~starts_with_enc(filename(p))
        /\ v.ok
        /\ c.ok
        /\ ~m.ok

\* C4: when the transform of encrypt_file succeeds and move_to_vault fails,
\* encrypt_file returns success, the original is still at its path with the
\* content it had and, the history file being writable, a VAULT_FAIL event
\* is the last record appended to the log, after the ENCRYPT record.
C4_VaultFailureIsAWarning ==
    [][C4_TransformOkMoveFails =>
          /\ ret' = TRUE
          /\ is_regular_file(fs', call'.input)
          /\ fs'[call'.input] = fs[call'.input]
          /\ can_open_log(call'.fault) =>
                /\ Len(history') = Len(history) + 2
                /\ \A i \in 1..Len(history) : history'[i] = history[i]
                /\ history'[Len(history) + 1].kind = "ENCRYPT"
                /\ history'[Len(history) + 2].kind = "VAULT_FAIL"]_vars

\* encrypt_file has returned success with the original still in place
\* beside its encrypted output, after a name collision in the vault.
C4_Witness ==
    /\ call.op = "encrypt_file"
    /\ call.fault = NoFault
    /\ ret = TRUE
    /\ LastEvent(history) = "VAULT_FAIL"
    /\ is_regular_file(fs, call.input)
    /\ is_regular_file(fs, call.output)
    /\ is_regular_file(fs, InVault(filename(call.input)))
    /\ fs[InVault(filename(call.input))].data # fs[call.input].data

\* C5: encrypt_file on a path whose file name starts with enc_ returns
\* failure with the filesystem as it was (no output created or modified,
\* no probe run, input and vault unchanged) and, the history file being
\* writable, appends one ENCRYPT_FAIL event to the log.
C5_MarkedInputRejected ==
    [][(call'.op = "encrypt_file" /\ starts_with_enc(filename(call'.input))) =>
          /\ ret' = FALSE
          /\ fs' = fs
          /\ can_open_log(call'.fault) =>
                /\ Len(history') = Len(history) + 1
                /\ history'[Len(history')].kind = "ENCRYPT_FAIL"
                /\ \A i \in 1..Len(history) : history'[i] = history[i]]_vars

\* encrypt_file was called on an existing, non-empty enc_ file with a peg
\* in range, and refused it.
C5_Witness ==
    /\ call.op = "encrypt_file"
    /\ starts_with_enc(filename(call.input))
    /\ validate_peg_value(call.pegs)
    /\ ret = FALSE
    /\ LastEvent(history) = "ENCRYPT_FAIL"
    /\ is_regular_file(fs, call.input)
    /\ file_size(fs, call.input) # 0
    /\ ~exists(fs, call.output)

\* C6: move_to_vault(p) with base(p) already in the vault fails, the vault
\* entry keeps its content and p stays as it was; and after a successful
\* move_to_vault, a move_to_vault of another file with the same base name
\* fails and leaves the first file's content in the vault.
C6_NoOverwriteInVault ==
    [][(call'.op = "move_to_vault") =>
          /\ is_regular_file(fs, call'.output) =>
                /\ ret' = FALSE
                /\ SameAt(fs, fs', call'.output)
                /\ SameAt(fs, fs', call'.input)
          /\ (/\ call.op = "move_to_vault"
              /\ ret = TRUE
              /\ call'.input # call.input
              /\ filename(call'.input) = filename(call.input)) =>
                /\ ret' = FALSE
                /\ SameAt(fs, fs', call.output)]_vars

\* The second of two move_to_vault calls for different files named a has
\* failed: its source is still in place and the vault holds the first file.
C6_Witness ==
    /\ call.op = "move_to_vault"
    /\ call.fault = NoFault
    /\ ret = FALSE
    /\ history = <<LogRec("VAULT_STORE", Path("", NameA), NoPath, 0)>>
    /\ call.input = Path(SUB_DIR, NameA)
    /\ is_regular_file(fs, call.input)
    /\ ~exists(fs, Path(".", NameA))
    /\ is_regular_file(fs, call.output)
    /\ fs[call.output].data = DataLong
    /\ fs[call.input].data # DataLong

\* C7: a successful move_to_vault(p) removes p, leaves p's content in the
\* vault as base(p) and, the history file being writable, appends exactly
\* one VAULT_STORE event; a failed
\* move_to_vault appends nothing, leaves p as it was and leaves the files
\* of the vault as they were.
C7_MoveNotCopy ==
    [][(call'.op = "move_to_vault") =>
          /\ ret' = TRUE =>
                /\ is_regular_file(fs, call'.input)
                /\ ~exists(fs', call'.input)
                /\ is_regular_file(fs', call'.output)
                /\ fs'[call'.output].data = fs[call'.input].data
                /\ can_open_log(call'.fault) =>
                      history' = Append(history,
                                   LogRec("VAULT_STORE", Path("", filename(call'.input)), NoPath, 0))
          /\ ret' = FALSE =>
                /\ history' = history
                /\ SameAt(fs, fs', call'.input)
                /\ SameVaultFiles(fs, fs')]_vars

\* move_to_vault has moved sub/a into the vault.
C7_Witness ==
    /\ call.op = "move_to_vault"
    /\ ret = TRUE
    /\ call.input = Path(SUB_DIR, NameA)
    /\ ~exists(fs, call.input)
    /\ is_regular_file(fs, call.output)
    /\ fs[call.output].data = DataShort
    /\ LastEvent(history) = "VAULT_STORE"

C9_RetrieveCopiesOrLeavesDest ==
    [][(call'.op = "retrieve_from_vault") =>
          /\ ret' = TRUE =>
                /\ is_regular_file(fs, call'.input)
                /\ is_regular_file(fs', call'.output)
                /\ fs'[call'.output].data = fs[call'.input].data
                /\ can_open_log(call'.fault) =>
                      history' = Append(history,
                                   LogRec("VAULT_RETRIEVE", Path("", filename(call'.input)),
                                          call'.output, 0))
          /\ (\/ ~is_regular_file(fs, call'.input)
              \/ call'.output = call'.input
              \/ ~is_directory(fs, parent_dir(call'.output))) =>
                /\ ret' = FALSE
                /\ SameAt(fs, fs', call'.output)
                /\ history' = history]_vars

\* retrieve_from_vault has replaced an existing file, sub/a, by the bytes
\* of the vault entry a.
C9_Witness ==
    /\ call.op = "retrieve_from_vault"
    /\ ret = TRUE
    /\ nops = 1
    /\ call.input = InVault(NameA)
    /\ call.output = Path(SUB_DIR, NameA)
    /\ fs[call.output].data = DataVault
    /\ fs[call.input].data = DataVault
    /\ LastEvent(history) = "VAULT_RETRIEVE"

\* C10: a call of encrypt_file or decrypt_file with a peg outside
\* [MIN_PEG, MAX_PEG] is rejected: it returns failure, writes no file and
\* logs no ENCRYPT or DECRYPT operation.
C10_PegCheckedBeforeTransform ==
    [][(call'.op \in {"encrypt_file", "decrypt_file"} /\ ~validate_peg_value(call'.pegs)) =>
          /\ ret' = FALSE
          /\ fs' = fs
          /\ LastEvent(history') \notin {"ENCRYPT", "DECRYPT"}]_vars

\* C11: decrypt_file validates its paths before it opens its output: a
\* call whose output path is its input path fails and leaves the input as
\* it was, and a call whose input does not pass validate_input_file leaves
\* the output path as it was.
C11_DecryptValidatesPaths ==
    [][(call'.op = "decrypt_file") =>
          /\ (call'.output = call'.input) =>
                /\ ret' = FALSE
                /\ SameAt(fs, fs', call'.input)
          /\ ~validate_input_file(fs, call'.input, call'.fault) =>
                SameAt(fs, fs', call'.output)]_vars

\* Validation of the arguments of encrypt_file(p, k) fails.
C12_ValidationFails ==
    /\ call'.op = "encrypt_file"
    /\ ~starts_with_enc(filename(call'.input))
    /\ ~validate_encryption_params_new(fs, call'.input, call'.pegs, call'.fault).ok

\* C12: when validation fails in encrypt_file (input missing, not regular,
\* of unknown size or empty; peg out of range; output directory missing,
\* not a directory or not writable) the call returns failure and the
\* filesystem is as it was: no output created or truncated, input and
\* vault unchanged.
C12_ValidationFailsFast ==
    [][C12_ValidationFails => (ret' = FALSE /\ fs' = fs)]_vars

\* encrypt_file has refused a good file with a good peg in a directory that
\* is not writable; the file is in place and there is no output.
C12_Witness ==
    /\ call.op = "encrypt_file"
    /\ call.fault = NoFault
    /\ ret = FALSE
    /\ validate_peg_value(call.pegs)
    /\ call.input = Path(SUB_DIR, NameA)
    /\ validate_input_file(fs, call.input, NoFault)
    /\ ~dir_writable(fs, SUB_DIR)
    /\ ~exists(fs, call.output)
    /\ history = <<>>

\* C14: every call of encrypt_file, decrypt_file, move_to_vault or
\* retrieve_from_vault that returns failure appends at least one record to
\* the log (the history file being writable).
C14_EveryFailureLogs ==
    [][(/\ call'.op \in {"encrypt_file", "decrypt_file", "move_to_vault", "retrieve_from_vault"}
        /\ ret' = FALSE
        /\ can_open_log(call'.fault)) =>
          Len(history') > Len(history)]_vars

\* The records that a step appends to the log.
Appended(h, g) == SubSeq(g, Len(h) + 1, Len(g))
IsPrefix(h, g) == Len(h) <= Len(g) /\ SubSeq(g, 1, Len(h)) = h
OperationRecords(h) == {i \in 1..Len(h) : h[i].kind \in {"ENCRYPT", "DECRYPT"}}

\* C15: the history file being writable, a successful decrypt_file appends
\* exactly the DECRYPT record of its input, output and peg; a successful
\* encrypt_file appends its ENCRYPT record followed by exactly one vault
\* event, VAULT_STORE if the original was moved and VAULT_FAIL if it is
\* still in place; a failed transform appends no operation record.
C15_OneOperationRecord ==
    [][(call'.op \in {"encrypt_file", "decrypt_file"} /\ can_open_log(call'.fault)) =>
          /\ IsPrefix(history, history')
          /\ (ret' = TRUE /\ call'.op = "decrypt_file") =>
                Appended(history, history') =
                    <<LogRec("DECRYPT", call'.input, call'.output, call'.pegs)>>
          /\ (ret' = TRUE /\ call'.op = "encrypt_file") =>
                /\ Len(history') = Len(history) + 2
                /\ history'[Len(history) + 1] =
                       LogRec("ENCRYPT", call'.input, derived_output(call'.input), call'.pegs)
                /\ history'[Len(history) + 2].kind =
                       IF exists(fs', call'.input) THEN "VAULT_FAIL" ELSE "VAULT_STORE"
          /\ ret' = FALSE => OperationRecords(Appended(history, history')) = {}]_vars

\* A successful decrypt_file has appended its DECRYPT record after the two
\* records of a successful encrypt_file.
C15_Witness ==
    /\ call.op = "decrypt_file"
    /\ ret = TRUE
    /\ Len(history) = 3
    /\ history[1].kind = "ENCRYPT"
    /\ history[2].kind = "VAULT_STORE"
    /\ history[3] = LogRec("DECRYPT", call.input, call.output, call.pegs)
    /\ validate_peg_value(call.pegs)

(***************************************************************************)
(* The log specification: the history file as a file of the working        *)
(* directory, so that a caller's path may denote it.  Its content is a     *)
(* sequence of lines, one number above 255 per record; the bytes of other  *)
(* files are 0..255.  The entry points run with no failing filesystem      *)
(* call; history is the content of the history file after each call.       *)
(***************************************************************************)
HistoryPath == Path(".", <<HISTORY_FILE>>)

EventKinds ==
    <<"ENCRYPT", "DECRYPT", "ENCRYPT_FAIL", "VAULT_FAIL", "VAULT_STORE", "VAULT_RETRIEVE",
      "VAULT_RETRIEVE_FAIL", "COMPARE_BINARY", "GARBLED">>

\* The line that log_operation or log_event writes for a record.
LogLine(event_type) ==
    256 + (CHOOSE i \in 1..Len(EventKinds) : EventKinds[i] = event_type)

log_content(f) == IF is_regular_file(f, HistoryPath) THEN f[HistoryPath].data ELSE <<>>

\* std::ofstream file(HISTORY_FILE, std::ios::app) and one line written: the
\* file is created when missing; nothing happens when it cannot be opened.
append_log(f, event_type) ==
    IF can_open_out(f, HistoryPath)
    THEN Put(f, HistoryPath, FileNode(log_content(f) \o <<LogLine(event_type)>>))
    ELSE f

\* The records h, appended in order.
RECURSIVE append_all(_, _)
append_all(f, h) ==
    IF h = <<>> THEN f ELSE append_all(append_log(f, h[1].kind), Tail(h))

\* process_file_core.  The output stream is still open when log_operation
\* runs and is closed on return: output bytes not yet flushed (`flushed`
\* false) are then written from offset 0 of the output, over whatever
\* log_operation appended if the output is the history file.
process_file_core_on_disk(f, input_file, output_file, pegs, encrypt_mode, flushed) ==
    IF ~can_open_in(f, input_file)
    THEN [ok |-> FALSE, fs |-> f]
    ELSE IF ~can_open_out(f, output_file)
    THEN [ok |-> FALSE, fs |-> f]
    ELSE LET f1 == Put(f, output_file, FileNode(<<>>))
             r == core_loop(f1[input_file].data, 0, <<>>, pegs, encrypt_mode, NoFault)
             kind == IF encrypt_mode THEN "ENCRYPT" ELSE "DECRYPT"
         IN  IF output_file # HistoryPath \/ flushed \/ r.data = <<>>
             THEN [ok |-> TRUE,
                   fs |-> append_log(Put(f1, output_file, FileNode(r.data)), kind)]
             ELSE [ok |-> TRUE,
                   fs |-> Put(f1, output_file, FileNode(r.data \o <<LogLine("GARBLED")>>))]

decrypt_file_on_disk(f, input_file, output_file, pegs, flushed) ==
    process_file_core_on_disk(f, input_file, output_file, pegs, FALSE, flushed)

\* move_to_vault and retrieve_from_vault write the log as their last step.
move_to_vault_on_disk(f, original_filepath) ==
    LET r == move_to_vault(f, <<>>, original_filepath, NoFault)
    IN  [ok |-> r.ok, fs |-> append_all(r.fs, r.history)]

retrieve_from_vault_on_disk(f, filename_in_vault, destination_path) ==
    LET r == retrieve_from_vault(f, <<>>, filename_in_vault, destination_path, NoFault)
    IN  [ok |-> r.ok, fs |-> append_all(r.fs, r.history)]

encrypt_file_on_disk(f, input_file, pegs) ==
    IF starts_with_enc(filename(input_file))
    THEN [ok |-> FALSE, fs |-> append_log(f, "ENCRYPT_FAIL")]
    ELSE LET v == validate_encryption_params_new(f, input_file, pegs, NoFault)
             c == process_file_core_on_disk(v.fs, input_file, derived_output(input_file),
                                            pegs, TRUE, TRUE)
             m == move_to_vault_on_disk(c.fs, input_file)
         IN  IF ~v.ok
             THEN [ok |-> FALSE, fs |-> v.fs]
             ELSE IF ~c.ok
             THEN [ok |-> FALSE, fs |-> append_log(c.fs, "ENCRYPT_FAIL")]
             ELSE IF ~m.ok
             THEN [ok |-> TRUE, fs |-> append_log(m.fs, "VAULT_FAIL")]
             ELSE [ok |-> TRUE, fs |-> m.fs]

\* compare_binary_files reads its two files and logs one event.
compare_binary_files_on_disk(f, filepath1, filepath2) ==
    [ok |-> TRUE, fs |-> append_log(f, "COMPARE_BINARY")]

LogPaths == {Path(".", NameA), HistoryPath}
LogVaultNames == {NameA, <<HISTORY_FILE>>}

LogInit ==
    /\ \E vault \in {"empty", "holds_a"} : fs = InitFs("absent", vault)
    /\ history = <<>>
    /\ call = NoCall
    /\ ret = TRUE
    /\ nops = 0
    /\ XIdle

OnDisk(r, c) == Returns(Result(r.ok, r.fs, log_content(r.fs)), c)

log_encrypt_file(p, pegs) ==
    /\ nops < MaxOps
    /\ OnDisk(encrypt_file_on_disk(fs, p, pegs),
              CallRec("encrypt_file", p, derived_output(p), pegs, NoFault))

log_decrypt_file(i, o, pegs, flushed) ==
    /\ nops < MaxOps
    /\ OnDisk(decrypt_file_on_disk(fs, i, o, pegs, flushed),
              CallRec("decrypt_file", i, o, pegs, NoFault))

log_move_to_vault(p) ==
    /\ nops < MaxOps
    /\ OnDisk(move_to_vault_on_disk(fs, p),
              CallRec("move_to_vault", p, InVault(filename(p)), 0, NoFault))

log_retrieve_from_vault(n, dest) ==
    /\ nops < MaxOps
    /\ OnDisk(retrieve_from_vault_on_disk(fs, n, dest),
              CallRec("retrieve_from_vault", InVault(n), dest, 0, NoFault))

log_compare_binary_files(p, q) ==
    /\ nops < MaxOps
    /\ OnDisk(compare_binary_files_on_disk(fs, p, q),
              CallRec("compare_binary_files", p, q, 0, NoFault))

LogNext ==
    \/ \E p \in LogPaths, k \in {MIN_PEG, MAX_PEG} : log_encrypt_file(p, k)
    \/ \E i \in LogPaths, o \in LogPaths, k \in {MIN_PEG, MAX_PEG}, flushed \in BOOLEAN :
          log_decrypt_file(i, o, k, flushed)
    \/ \E p \in LogPaths : log_move_to_vault(p)
    \/ \E n \in LogVaultNames, d \in LogPaths : log_retrieve_from_vault(n, d)
    \/ \E p \in LogPaths, q \in LogPaths : log_compare_binary_files(p, q)

SpecLog == LogInit /\ [][LogNext]_vars

\* C13: the history log is append-only: whatever paths the caller passes,
\* the content of the history file before a call of encrypt_file,
\* decrypt_file, move_to_vault, retrieve_from_vault or a comparison is a
\* prefix of its content after the call.
C13_LogAppendOnly == [][IsPrefix(history, history')]_vars

(***************************************************************************)
(* Content loading, comparison and the verify workflow.                    *)
(*                                                                         *)
(* match_percentage is a float in the source, (matching_chars / max_len)   *)
(* * 100; here it is the exact fraction num / den.  A SHA-256 digest is    *)
(* modelled as the content it was computed from, wrapped in a one-element  *)
(* sequence (so that no two contents share a digest and the digest of the  *)
(* empty content is not the empty string); <<>> is the empty string that   *)
(* calculate_sha256 returns on failure.                                    *)
(***************************************************************************)
\* The size the verify workflow passes as max_chars_to_load (5000 in the
\* source), scaled down so that files of MaxLen bytes exceed it.
MAX_TEXT_COMPARE_DISPLAY_CHARS == 2

Max(a, b) == IF a > b THEN a ELSE b
Take(data, n) == SubSeq(data, 1, Min(n, Len(data)))

Percent(num, den) == [num |-> num, den |-> den]
TextCompareResult(files_readable, content1, content2, match_percentage, first_diff_offset, error_message) ==
    [files_readable |-> files_readable, content1 |-> content1, content2 |-> content2,
     match_percentage |-> match_percentage, first_diff_offset |-> first_diff_offset,
     error_message |-> error_message]

\* The for loop shared by compare_text_files and compare_string_contents,
\* from index i (0-based) on.  Yields [matching_chars, first_diff_offset].
RECURSIVE compare_loop(_, _, _, _, _, _)
compare_loop(content1, content2, i, min_len, matching_chars, first_diff_offset) ==
    IF i >= min_len
    THEN [matching_chars |-> matching_chars, first_diff_offset |-> first_diff_offset]
    ELSE IF content1[i + 1] = content2[i + 1]
    THEN compare_loop(content1, content2, i + 1, min_len, matching_chars + 1,
                      first_diff_offset)
    ELSE compare_loop(content1, content2, i + 1, min_len, matching_chars,
                      IF first_diff_offset = -1 THEN i ELSE first_diff_offset)

\* A faulty scoring: the matches are divided by the shorter length.
compare_contents_OverMinLen(content1, content2, files_readable, error_message) ==
    LET len1 == Len(content1)
        len2 == Len(content2)
        min_len == Min(len1, len2)
        l == compare_loop(content1, content2, 0, min_len, 0, -1)
    IN  TextCompareResult(files_readable, content1, content2,
            IF min_len > 0 THEN Percent(100 * l.matching_chars, min_len)
            ELSE IF len1 = 0 /\ len2 = 0 THEN Percent(100, 1) ELSE Percent(0, 1),
            IF len1 # len2 /\ l.first_diff_offset = -1 THEN min_len ELSE l.first_diff_offset,
            error_message)

\* A faulty scoring: a content that is a proper prefix of the other is
\* reported with no difference.
compare_contents_IgnoresLength(content1, content2, files_readable, error_message) ==
    LET len1 == Len(content1)
        len2 == Len(content2)
        min_len == Min(len1, len2)
        max_len == Max(len1, len2)
        l == compare_loop(content1, content2, 0, min_len, 0, -1)
    IN  TextCompareResult(files_readable, content1, content2,
            IF max_len > 0 THEN Percent(100 * l.matching_chars, max_len)
            ELSE IF len1 = 0 /\ len2 = 0 THEN Percent(100, 1) ELSE Percent(0, 1),
            l.first_diff_offset,
            error_message)

\* The scoring that ends compare_text_files and compare_string_contents.
compare_contents(content1, content2, files_readable, error_message) ==
    LET len1 == Len(content1)
        len2 == Len(content2)
        min_len == Min(len1, len2)
        max_len == Max(len1, len2)
        l == compare_loop(content1, content2, 0, min_len, 0, -1)
    IN  TextCompareResult(files_readable, content1, content2,
            IF max_len > 0 THEN Percent(100 * l.matching_chars, max_len)
            ELSE IF len1 = 0 /\ len2 = 0 THEN Percent(100, 1) ELSE Percent(0, 1),
            IF len1 # len2 /\ l.first_diff_offset = -1 THEN min_len ELSE l.first_diff_offset,
            error_message)

compare_string_contents(content1, content2) ==
    compare_contents(content1, content2, TRUE, <<>>)

\* The result a TextCompareResult holds before anything is assigned to it.
DefaultTextResult(error_message) ==
    TextCompareResult(FALSE, <<>>, <<>>, Percent(0, 1), -1, error_message)

\* What one read of at most max_chars_to_load bytes delivers; a failing
\* read (badbit) of file `side` delivers the first fault.at bytes.
read_some(data, max_chars_to_load, side, fault) ==
    IF fault.kind = "read" /\ fault.side = side
    THEN Take(data, Min(fault.at, max_chars_to_load))
    ELSE Take(data, max_chars_to_load)
read_bad(side, fault) == fault.kind = "read" /\ fault.side = side
open_fails(side, fault) == fault.kind = "open" /\ fault.side \in {side, 0}

\* An environment fault that names the file of the call it strikes: 1, 2,
\* or 0 for both.
SideFault(kind, side, at) == [kind |-> kind, at |-> at, side |-> side]
NoSideFault == SideFault("none", 0, 0)

\* Yields [result, history].
compare_text_files(f, h, filepath1, filepath2, max_chars_to_load, fault) ==
    IF ~exists(f, filepath1) \/ ~is_regular_file(f, filepath1)
    THEN [result |-> DefaultTextResult(<<"file1">>),
          history |-> log_event(fault, h, "COMPARE_TEXT_FAIL", filepath1, NoPath)]
    ELSE IF open_fails(1, fault)
    THEN [result |-> DefaultTextResult(<<"file1">>),
          history |-> log_event(fault, h, "COMPARE_TEXT_FAIL", filepath1, NoPath)]
    ELSE IF ~exists(f, filepath2) \/ ~is_regular_file(f, filepath2)
    THEN [result |-> DefaultTextResult(<<"file2">>),
          history |-> log_event(fault, h, "COMPARE_TEXT_FAIL", filepath2, NoPath)]
    ELSE IF open_fails(2, fault)
    THEN [result |-> DefaultTextResult(<<"file2">>),
          history |-> log_event(fault, h, "COMPARE_TEXT_FAIL", filepath2, NoPath)]
    ELSE LET content1 == read_some(f[filepath1].data, max_chars_to_load, 1, fault)
             content2 == read_some(f[filepath2].data, max_chars_to_load, 2, fault)
             files_readable == ~read_bad(1, fault) /\ ~read_bad(2, fault)
             error_message == IF read_bad(1, fault) THEN <<"file1">>
                              ELSE IF read_bad(2, fault) THEN <<"file2">> ELSE <<>>
         IN  IF ~files_readable /\ content1 = <<>> /\ content2 = <<>>
             THEN [result |-> TextCompareResult(FALSE, content1, content2, Percent(0, 1), -1,
                                                error_message),
                   history |-> log_event(fault, h, "COMPARE_TEXT_FAIL", NoPath, NoPath)]
             ELSE [result |-> compare_contents(content1, content2, files_readable,
                                               error_message),
                   history |-> log_event(fault, h, "COMPARE_TEXT", filepath1, filepath2)]

\* Yields [content, history].
load_file_content_to_string(f, h, filepath, max_chars_to_load, side, fault) ==
    IF ~exists(f, filepath) \/ ~is_regular_file(f, filepath)
    THEN [content |-> <<>>,
          history |-> log_event(fault, h, "LOAD_CONTENT_FAIL", filepath, NoPath)]
    ELSE IF open_fails(side, fault)
    THEN [content |-> <<>>,
          history |-> log_event(fault, h, "LOAD_CONTENT_FAIL", filepath, NoPath)]
    ELSE [content |-> read_some(f[filepath].data, max_chars_to_load, side, fault),
          history |-> IF read_bad(side, fault)
                      THEN log_event(fault, h, "LOAD_CONTENT_FAIL", filepath, NoPath)
                      ELSE h]

\* Whether the digest of file `side` cannot be computed: the file does not
\* open for reading, the digest engine fails, or a read fails.
hash_fails(side, fault) == fault.kind = "hash" /\ fault.side \in {side, 0}
size_fails(side, fault) == fault.kind = "size" /\ fault.side \in {side, 0}

\* Yields [hash, history].
calculate_sha256(f, h, filepath, side, fault) ==
    IF hash_fails(side, fault)
    THEN [hash |-> <<>>, history |-> log_event(fault, h, "HASH_ERROR", filepath, NoPath)]
    ELSE [hash |-> <<f[filepath].data>>, history |-> h]

\* What compare_binary_files learns of one side.  Yields
\* [exists, size, hash, error_message, history].
binary_side(f, h, p, side, fault) ==
    IF ~(exists(f, p) /\ is_regular_file(f, p))
    THEN [exists |-> FALSE, size |-> 0, hash |-> <<>>,
          error_message |-> <<"not found">>, history |-> h]
    ELSE IF size_fails(side, fault)
    THEN [exists |-> FALSE, size |-> -1, hash |-> <<>>,
          error_message |-> <<"size">>, history |-> h]
    ELSE LET d == calculate_sha256(f, h, p, side, fault)
         IN  [exists |-> TRUE, size |-> file_size(f, p), hash |-> d.hash,
              error_message |-> IF d.hash = <<>> /\ file_size(f, p) > 0
                                THEN <<"hash">> ELSE <<>>,
              history |-> d.history]

BinaryCompareResult(s1, s2, sizes_match, hashes_match) ==
    [file1_exists |-> s1.exists, file2_exists |-> s2.exists,
     file1_size |-> s1.size, file2_size |-> s2.size,
     file1_hash |-> s1.hash, file2_hash |-> s2.hash,
     hashes_match |-> hashes_match, sizes_match |-> sizes_match,
     error_message_file1 |-> s1.error_message,
     error_message_file2 |-> s2.error_message]

\* Yields [result, history].
compare_binary_files(f, h, filepath1, filepath2, fault) ==
    LET s1 == binary_side(f, h, filepath1, 1, fault)
        s2 == binary_side(f, s1.history, filepath2, 2, fault)
        file1_hash_ok == s1.hash # <<>> \/ (s1.hash = <<>> /\ s1.size = 0)
        file2_hash_ok == s2.hash # <<>> \/ (s2.hash = <<>> /\ s2.size = 0)
    IN  [result |->
            IF s1.exists /\ s2.exists
            THEN BinaryCompareResult(s1, s2, s1.size = s2.size,
                     IF file1_hash_ok /\ file2_hash_ok THEN s1.hash = s2.hash ELSE FALSE)
            ELSE BinaryCompareResult(s1, s2, FALSE, FALSE),
         history |-> log_event(fault, s2.history, "COMPARE_BINARY", filepath1, filepath2)]

\* The Compare button of the verify modal.  Yields [compared, result,
\* history]; compared is FALSE when an error message is shown instead.
verify_encrypted_file(f, h, vault_filename, external_enc_path, pegs, fault) ==
    LET vault_file_full_path == InVault(vault_filename)
    IN  IF ~is_regular_file(f, vault_file_full_path) \/ ~is_regular_file(f, external_enc_path)
        THEN [compared |-> FALSE, result |-> DefaultTextResult(<<"not found">>),
              history |-> h]
        ELSE LET v == load_file_content_to_string(f, h, vault_file_full_path,
                          MAX_TEXT_COMPARE_DISPLAY_CHARS, 1, fault)
                 e == load_file_content_to_string(f, v.history, external_enc_path,
                          MAX_TEXT_COMPARE_DISPLAY_CHARS, 2, fault)
                 in_memory_encrypted_content == process_content_caesar(v.content, pegs, TRUE)
             IN  [compared |-> TRUE,
                  result |-> compare_string_contents(in_memory_encrypted_content, e.content),
                  history |-> e.history]

(***************************************************************************)
(* The inspection operations, each applied once to a filesystem that holds *)
(* a vault file and an external file of every content up to MaxLen bytes.  *)
(***************************************************************************)
InspectBytes == {0, 1}
InspectVaultFile == InVault(NameA)
InspectExternal == Path(".", NameEncA)
InspectContents == SeqsUpTo(InspectBytes, MaxLen)

\* k1, k2 say what the two paths are: a file (of content c1, c2), a
\* directory, or absent.
InspectFs(k1, c1, k2, c2) ==
    LET base == Put(EmptyFs, VaultEntry, DirNode(TRUE))
        withVault == IF k1 = "absent" THEN base
                     ELSE Put(base, InspectVaultFile, FileNode(c1))
    IN  IF k2 = "absent" THEN withVault
        ELSE IF k2 = "dir" THEN Put(withVault, InspectExternal, DirNode(TRUE))
        ELSE Put(withVault, InspectExternal, FileNode(c2))

InspectInit ==
    /\ \E k1 \in {"file", "absent"}, k2 \in {"file", "absent", "dir"},
          c1 \in InspectContents, c2 \in InspectContents :
             fs = InspectFs(k1, c1, k2, c2)
    /\ history = <<>>
    /\ call = NoCall
    /\ ret = [op |-> "none"]
    /\ nops = 0
    /\ XIdle

InspectPaths == {InspectVaultFile, InspectExternal}
ReadFaults == {NoSideFault, SideFault("log", 0, 0)}
                \cup {SideFault("open", s, 0) : s \in {1, 2}}
                \cup {SideFault("read", s, at) : s \in {1, 2}, at \in {0, 1}}
BinaryFaults == {NoSideFault, SideFault("log", 0, 0)}
                \cup {SideFault("size", s, 0) : s \in {1, 2}}
                \cup {SideFault("hash", s, 0) : s \in {0, 1, 2}}
\* max_chars_to_load as callers pass it: the display cap, or a value no
\* file reaches (the default arguments of the source).
LoadLimits == {MAX_TEXT_COMPARE_DISPLAY_CHARS, MaxLen + 1}

Inspected(c, r, h) ==
    /\ call.op = "none"
    /\ call' = c
    /\ ret' = r
    /\ history' = h
    /\ UNCHANGED <<fs, nops>>
    /\ UNCHANGED xvars

do_compare_string_contents(p, q) ==
    /\ is_regular_file(fs, p) /\ is_regular_file(fs, q)
    /\ Inspected(CallRec("compare_string_contents", p, q, 0, NoSideFault),
                 compare_string_contents(fs[p].data, fs[q].data), history)

do_compare_text_files(p, q, max_chars_to_load, fault) ==
    LET r == compare_text_files(fs, history, p, q, max_chars_to_load, fault)
    IN  Inspected(CallRec("compare_text_files", p, q, max_chars_to_load, fault),
                  r.result, r.history)

do_compare_binary_files(p, q, fault) ==
    LET r == compare_binary_files(fs, history, p, q, fault)
    IN  Inspected(CallRec("compare_binary_files", p, q, 0, fault), r.result, r.history)

do_verify_encrypted_file(n, q, pegs, fault) ==
    LET r == verify_encrypted_file(fs, history, n, q, pegs, fault)
    IN  Inspected(CallRec("verify", InVault(n), q, pegs, fault),
                  [compared |-> r.compared, result |-> r.result], r.history)

do_validate_input_file(p, fault) ==
    Inspected(CallRec("validate_input_file", p, NoPath, 0, fault),
              [ok |-> validate_input_file(fs, p, fault)], history)

InspectNext ==
    \/ \E p \in InspectPaths, q \in InspectPaths : do_compare_string_contents(p, q)
    \/ \E p \in InspectPaths, q \in InspectPaths, m \in LoadLimits, fault \in ReadFaults :
          do_compare_text_files(p, q, m, fault)
    \/ \E p \in InspectPaths, q \in InspectPaths, fault \in BinaryFaults :
          do_compare_binary_files(p, q, fault)
    \/ \E k \in {MIN_PEG, MAX_PEG}, fault \in ReadFaults :
          do_verify_encrypted_file(NameA, InspectExternal, k, fault)
    \/ \E p \in InspectPaths, fault \in {NoSideFault, SideFault("size", 0, 0)} :
          do_validate_input_file(p, fault)

SpecInspect == InspectInit /\ [][InspectNext]_vars

(***************************************************************************)
(* Claims about the inspection operations.                                 *)
(***************************************************************************)
IsHundred(pct) == pct.num = 100 * pct.den
IsZero(pct) == pct.num = 0

\* C16: the verify workflow reports a match of 100 exactly when the whole
\* external file equals, byte for byte, the encryption under the peg of the
\* whole vault file, whatever the files' lengths.
C16_VerifyMatchesWholeFile ==
    (call.op = "verify" /\ call.fault = NoSideFault /\ ret.compared) =>
        (IsHundred(ret.result.match_percentage)
            <=> fs[call.output].data
                    = process_content_caesar(fs[call.input].data, call.pegs, TRUE))

\* The calls that compared two texts: compare_string_contents, and
\* compare_text_files when both files were read.
TextCompared ==
    /\ call.op \in {"compare_string_contents", "compare_text_files"}
    /\ ret.files_readable

\* The texts such a call had to compare.
TextA == IF call.op = "compare_text_files"
         THEN Take(fs[call.input].data, call.pegs) ELSE fs[call.input].data
TextB == IF call.op = "compare_text_files"
         THEN Take(fs[call.output].data, call.pegs) ELSE fs[call.output].data

\* The positions, counted from 0, at which two texts of possibly different
\* lengths both have a byte, and those at which the bytes are the same.
CommonPositions(a, b) == 0 .. (Min(Len(a), Len(b)) - 1)
Matches(a, b) == {i \in CommonPositions(a, b) : a[i + 1] = b[i + 1]}

\* C17: a text comparison (of the first max_bytes of two files, or of two
\* strings) reports 100 * matches / max(len_a, len_b), where matches counts
\* the equal bytes at equal positions; 100 when both texts are empty and 0
\* when exactly one is.
C17_MatchPercentage ==
    TextCompared =>
        LET a == TextA
            b == TextB
            pct == ret.match_percentage
        IN  /\ ret.content1 = a /\ ret.content2 = b
            /\ pct.den > 0
            /\ Max(Len(a), Len(b)) > 0 =>
                  pct.num * Max(Len(a), Len(b)) = 100 * Cardinality(Matches(a, b)) * pct.den
            /\ (a = <<>> /\ b = <<>>) => IsHundred(pct)
            /\ ((a = <<>>) # (b = <<>>)) => IsZero(pct)

C17_Witness ==
    /\ call.op = "compare_text_files"
    /\ call.fault = NoSideFault
    /\ ret.files_readable
    /\ ret.content1 = <<0, 1>>
    /\ Len(ret.content2) = 3
    /\ ret.match_percentage = Percent(100, 3)

\* C18: first_diff_offset is the smallest position at which the two texts
\* differ; when one text is a proper prefix of the other it is the length of
\* the shorter; it is -1 exactly when the texts are identical.
C18_FirstDiffOffset ==
    TextCompared =>
        LET a == TextA
            b == TextB
            differing == CommonPositions(a, b) \ Matches(a, b)
            d == ret.first_diff_offset
        IN  /\ differing # {} => (d \in differing /\ \A i \in differing : d <= i)
            /\ (differing = {} /\ Len(a) # Len(b)) => d = Min(Len(a), Len(b))
            /\ (d = -1) <=> (a = b)

C18_Witness ==
    /\ call.op = "compare_string_contents"
    /\ ret.content1 = <<0, 0, 0>>
    /\ ret.content2 = <<0, 0, 1>>
    /\ ret.first_diff_offset = 2

\* Whether compare_binary_files could read side `side`, the file at p: it
\* is a regular file whose size and digest were obtained.
SideRead(p, side) ==
    /\ is_regular_file(fs, p)
    /\ ~size_fails(side, call.fault)
    /\ ~hash_fails(side, call.fault)

\* C19: compare_binary_files always returns a result, in which sizes_match
\* and hashes_match are true only when both sides were read and are equal;
\* a file compared with itself, when readable, gives both true; a side that
\* is missing or unreadable gives both false and a non-empty error message
\* for that side.
C19_BinaryCompare ==
    (call.op = "compare_binary_files") =>
        LET read1 == SideRead(call.input, 1)
            read2 == SideRead(call.output, 2)
        IN  /\ ret.sizes_match =>
                  (read1 /\ read2 /\ file_size(fs, call.input) = file_size(fs, call.output))
            /\ ret.hashes_match =>
                  (read1 /\ read2 /\ fs[call.input].data = fs[call.output].data)
            /\ (call.input = call.output /\ read1 /\ read2) =>
                  (ret.sizes_match /\ ret.hashes_match)
            /\ ~read1 => (~ret.sizes_match /\ ~ret.hashes_match
                            /\ ret.error_message_file1 # <<>>)
            /\ ~read2 => (~ret.sizes_match /\ ~ret.hashes_match
                            /\ ret.error_message_file2 # <<>>)

\* The inputs the claim says are rejected: a path that does not exist or is
\* not a regular file, a file whose size cannot be obtained, an empty file.
Unusable(f, p, fault) ==
    IF p \notin DOMAIN f THEN TRUE
    ELSE IF f[p].kind # "file" THEN TRUE
    ELSE IF fault.kind = "size" THEN TRUE
    ELSE Len(f[p].data) = 0

\* C20: validate_input_file fails exactly when the path does not exist, is
\* not a regular file, has a size that cannot be obtained, or has length
\* zero; and it leaves the filesystem as it was.
C20_ValidateInputFile ==
    [][(call'.op = "validate_input_file") =>
          /\ (~ret'.ok) <=> Unusable(fs, call'.input, call'.fault)
          /\ fs' = fs]_vars

C20_Witness ==
    /\ call.op = "validate_input_file"
    /\ call.fault = NoSideFault
    /\ is_regular_file(fs, call.input)
    /\ fs[call.input].data = <<>>
    /\ ~ret.ok

(***************************************************************************)
(* Parameter validation with paths as the caller spells them.              *)
(*                                                                         *)
(* A path argument is a string.  Spelled(text, lex, id) is the string      *)
(* `text`, which names the directory entry `lex` (its parent directory and *)
(* file name, as parent_path() and filename() give them) and denotes the   *)
(* file `id` once links are followed: two spellings of one path share lex  *)
(* and id, a hard or symbolic link has its own lex and the id of the file  *)
(* it links to.                                                            *)
(***************************************************************************)
Spelled(text, lex, id) == [text |-> text, lex |-> lex, id |-> id]
EmptyString == Spelled("", NoPath, NoPath)

\* std::filesystem::equivalent of two existing paths.
equivalent_files(p, q) == p.id = q.id

\* The part of validate_output_file after the comparison with the input:
\* the directory checks and the writability probe.  Yields [ok, fs].
output_directory_checks(f, output_filename) ==
    IF ~dir_exists(f, parent_dir(output_filename.lex))
    THEN [ok |-> FALSE, fs |-> f]
    ELSE IF ~is_directory(f, parent_dir(output_filename.lex))
    THEN [ok |-> FALSE, fs |-> f]
    ELSE IF exists(f, output_filename.id) /\ ~is_regular_file(f, output_filename.id)
    THEN [ok |-> FALSE, fs |-> f]
    ELSE write_probe(f, probe_name("temp_write_check_", output_filename.lex))

\* A faulty validator: the comparison path is compared as a string only.
validate_output_file_StringOnly(f, output_filename, input_filename_for_comparison) ==
    LET compares == input_filename_for_comparison.text # ""
        d == output_directory_checks(f, output_filename)
    IN  IF compares /\ output_filename.text = input_filename_for_comparison.text
        THEN [ok |-> FALSE, fs |-> f, ran |-> <<"different">>]
        ELSE [ok |-> d.ok, fs |-> d.fs,
              ran |-> IF compares THEN <<"different", "output">> ELSE <<"output">>]

\* Yields [ok, fs, ran]; ran lists its checks in the order they were run:
\* "different" for the comparison with the input, "output" for the rest.
validate_output_file(f, output_filename, input_filename_for_comparison) ==
    LET compares == input_filename_for_comparison.text # ""
        d == output_directory_checks(f, output_filename)
    IN  IF /\ compares
           /\ IF exists(f, output_filename.id) /\ exists(f, input_filename_for_comparison.id)
              THEN equivalent_files(output_filename, input_filename_for_comparison)
              ELSE output_filename.text = input_filename_for_comparison.text
        THEN [ok |-> FALSE, fs |-> f, ran |-> <<"different">>]
        ELSE [ok |-> d.ok, fs |-> d.fs,
              ran |-> IF compares THEN <<"different", "output">> ELSE <<"output">>]

OperationParams(input_file, output_file, pegs) ==
    [input_file |-> input_file, output_file |-> output_file, pegs |-> pegs]
ValidationFlags(check_input_file, check_output_file, check_pegs, ensure_output_different_from_input) ==
    [check_input_file |-> check_input_file, check_output_file |-> check_output_file,
     check_pegs |-> check_pegs,
     ensure_output_different_from_input |-> ensure_output_different_from_input]
DEFAULT_ENCRYPT_DECRYPT_FLAGS == ValidationFlags(TRUE, TRUE, TRUE, TRUE)
DEFAULT_DECRYPT_FLAGS_NO_INPUT_CHECK == ValidationFlags(FALSE, TRUE, TRUE, TRUE)

\* A faulty validator: the peg is checked before the output file.
validate_operation_parameters_PegFirst(f, params, flags, fault) ==
    IF flags.check_input_file /\ ~validate_input_file(f, params.input_file.id, fault)
    THEN [ok |-> FALSE, fs |-> f, ran |-> <<"input">>]
    ELSE LET ran1 == IF flags.check_input_file THEN <<"input">> ELSE <<>>
             ran2 == IF flags.check_pegs THEN Append(ran1, "pegs") ELSE ran1
         IN  IF flags.check_pegs /\ ~validate_peg_value(params.pegs)
             THEN [ok |-> FALSE, fs |-> f, ran |-> ran2]
             ELSE IF ~flags.check_output_file
             THEN [ok |-> TRUE, fs |-> f, ran |-> ran2]
             ELSE LET o == validate_output_file(f, params.output_file,
                               IF flags.ensure_output_different_from_input
                               THEN params.input_file ELSE EmptyString)
                  IN  [ok |-> o.ok, fs |-> o.fs, ran |-> ran2 \o o.ran]

\* Yields [ok, fs, ran]; ran lists the checks in the order they were run.
validate_operation_parameters(f, params, flags, fault) ==
    IF flags.check_input_file /\ ~validate_input_file(f, params.input_file.id, fault)
    THEN [ok |-> FALSE, fs |-> f, ran |-> <<"input">>]
    ELSE LET ran1 == IF flags.check_input_file THEN <<"input">> ELSE <<>>
             input_for_comparison == IF flags.ensure_output_different_from_input
                                     THEN params.input_file ELSE EmptyString
             o == IF flags.check_output_file
                  THEN validate_output_file(f, params.output_file, input_for_comparison)
                  ELSE [ok |-> TRUE, fs |-> f, ran |-> <<>>]
             ran2 == ran1 \o o.ran
         IN  IF ~o.ok
             THEN [ok |-> FALSE, fs |-> o.fs, ran |-> ran2]
             ELSE IF flags.check_pegs
             THEN [ok |-> validate_peg_value(params.pegs), fs |-> o.fs,
                   ran |-> Append(ran2, "pegs")]
             ELSE [ok |-> TRUE, fs |-> o.fs, ran |-> ran2]

validate_decryption_params(f, params, fault) ==
    validate_operation_parameters(f, params, DEFAULT_ENCRYPT_DECRYPT_FLAGS, fault)


(***************************************************************************)
(* The validators, each applied once to a filesystem that holds or lacks   *)
(* the file a, its encrypted output, a second directory, and a file that   *)
(* carries the name of one of the probes' marker files.                    *)
(***************************************************************************)
SpelledA == Spelled("a", Path(".", NameA), Path(".", NameA))
SpelledDotA == Spelled("./a", Path(".", NameA), Path(".", NameA))
SpelledLink == Spelled("lnk", Path(".", <<"lnk">>), Path(".", NameA))
SpelledSubA == Spelled("sub/a", Path(SUB_DIR, NameA), Path(SUB_DIR, NameA))
SpelledPaths == {SpelledA, SpelledDotA, SpelledLink, SpelledSubA}

MarkerFiles == {probe_name("temp_write_check_", Path(".", NameA)),
                probe_name("temp_write_check_derived_", Path(".", NameEncA)),
                probe_name("temp_write_check_retrieve_", Path(".", NameA))}

\* a: "absent", "empty" or "full"; sub: "absent", "rw" or "ro"; enc: whether
\* enc_a exists; markers: the marker names that are files already.
ValidateFs(a, sub, enc, markers) ==
    LET f0 == Put(Put(EmptyFs, VaultEntry, DirNode(TRUE)), InVault(NameA), FileNode(DataVault))
        f1 == IF a = "absent" THEN f0
              ELSE Put(f0, Path(".", NameA), FileNode(IF a = "empty" THEN <<>> ELSE DataLong))
        f2 == IF sub = "absent" THEN f1
              ELSE Put(f1, DirEntry(SUB_DIR), DirNode(sub = "rw"))
        f3 == IF enc THEN Put(f2, Path(".", NameEncA), FileNode(DataShort)) ELSE f2
    IN  [q \in DOMAIN f3 \cup markers |-> IF q \in markers THEN FileNode(DataShort) ELSE f3[q]]

ValidateCall(op, input, output, pegs, flags, fault) ==
    [op |-> op, input |-> input, output |-> output, pegs |-> pegs, flags |-> flags,
     fault |-> fault]
NoValidateCall ==
    ValidateCall("none", EmptyString, EmptyString, 0, DEFAULT_ENCRYPT_DECRYPT_FLAGS, NoFault)

ValidateInit ==
    /\ \E a \in {"absent", "empty", "full"}, sub \in {"absent", "rw", "ro"},
          enc \in BOOLEAN, markers \in {{}} \cup {{m} : m \in MarkerFiles} :
             fs = ValidateFs(a, sub, enc, markers)
    /\ history = <<>>
    /\ call = NoValidateCall
    /\ ret = [ok |-> TRUE, ran |-> <<>>]
    /\ nops = 0
    /\ XIdle

Validated(c, r, ran) ==
    /\ call.op = "none"
    /\ call' = c
    /\ ret' = [ok |-> r.ok, ran |-> ran]
    /\ fs' = r.fs
    /\ UNCHANGED <<history, nops>>
    /\ UNCHANGED xvars

AllFlags == {ValidationFlags(i, o, k, d) : i \in BOOLEAN, o \in BOOLEAN, k \in BOOLEAN, d \in BOOLEAN}

do_validate_output_file(out, cmp) ==
    LET r == validate_output_file(fs, out, cmp)
    IN  Validated(ValidateCall("validate_output_file", cmp, out, 0,
                               DEFAULT_ENCRYPT_DECRYPT_FLAGS, NoFault), r, r.ran)

do_validate_operation_parameters(params, flags, fault) ==
    LET r == validate_operation_parameters(fs, params, flags, fault)
    IN  Validated(ValidateCall("validate_operation_parameters", params.input_file,
                               params.output_file, params.pegs, flags, fault), r, r.ran)

do_validate_decryption_params(params) ==
    LET r == validate_decryption_params(fs, params, NoFault)
    IN  Validated(ValidateCall("validate_decryption_params", params.input_file,
                               params.output_file, params.pegs,
                               DEFAULT_ENCRYPT_DECRYPT_FLAGS, NoFault), r, r.ran)

do_validate_derived_output_file(out, in) ==
    Validated(ValidateCall("validate_derived_output_file", Spelled("", in, in),
                           Spelled("", out, out), 0, DEFAULT_ENCRYPT_DECRYPT_FLAGS, NoFault),
              validate_derived_output_file(fs, out, in), <<>>)

do_validate_destination_path(dest, n) ==
    Validated(ValidateCall("validate_destination_path", Spelled("", InVault(n), InVault(n)),
                           Spelled("", dest, dest), 0, DEFAULT_ENCRYPT_DECRYPT_FLAGS, NoFault),
              validate_destination_path(fs, dest, n), <<>>)

ValidateNext ==
    \/ \E out \in SpelledPaths, cmp \in SpelledPaths \cup {EmptyString} :
          do_validate_output_file(out, cmp)
    \/ \E i \in SpelledPaths, o \in SpelledPaths, k \in {0, MAX_PEG}, flags \in AllFlags,
          fault \in {NoFault, SizeFault} :
          do_validate_operation_parameters(OperationParams(i, o, k), flags, fault)
    \/ \E i \in SpelledPaths, o \in SpelledPaths, k \in {0, MAX_PEG} :
          do_validate_decryption_params(OperationParams(i, o, k))
    \/ \E in \in {Path(".", NameA), Path(SUB_DIR, NameA)} :
          do_validate_derived_output_file(derived_output(in), in)
    \/ \E dest \in {Path(".", NameA), Path(SUB_DIR, NameA), InVault(NameA)} :
          do_validate_destination_path(dest, NameA)

SpecValidate == ValidateInit /\ [][ValidateNext]_vars

\* C21: validation of an output path against a comparison path fails
\* whenever the two denote the same file, however they are spelled and
\* whether they are links, and whether or not the file exists yet.
C21_SameFileRejected ==
    (/\ call.op = "validate_output_file"
     /\ call.input # EmptyString
     /\ call.input.id = call.output.id) => ~ret.ok

\* The checks that a call with the given flags runs when none fails, in
\* order; the comparison of output and input belongs to the output check
\* when dependent is TRUE, and has a flag of its own otherwise.
EnabledChecks(flags, dependent) ==
    (IF flags.check_input_file THEN <<"input">> ELSE <<>>)
    \o (IF flags.ensure_output_different_from_input /\ (dependent => flags.check_output_file)
        THEN <<"different">> ELSE <<>>)
    \o (IF flags.check_output_file THEN <<"output">> ELSE <<>>)
    \o (IF flags.check_pegs THEN <<"pegs">> ELSE <<>>)

ParameterCall(c) ==
    c.op \in {"validate_operation_parameters", "validate_decryption_params"}

\* The checks run are the enabled ones up to the first that fails.
ChecksShortCircuit(f, c, r, enabled) ==
    LET inOk == validate_input_file(f, c.input.id, c.fault)
        pegOk == validate_peg_value(c.pegs)
        n == Len(r.ran)
    IN  /\ IsPrefix(r.ran, enabled)
        /\ r.ok => /\ r.ran = enabled
                   /\ c.flags.check_input_file => inOk
                   /\ c.flags.check_pegs => pegOk
        /\ ~r.ok => /\ n > 0
                    /\ r.ran[n] = "input" => ~inOk
                    /\ r.ran[n] = "pegs" => ~pegOk
                    /\ (n > 1 /\ r.ran[1] = "input") => inOk

\* C22 as stated: each of the four checks runs exactly when its own flag is
\* set, independently of the other flags, in the order input, output, peg,
\* and the first failing check ends the call.
C22_AsStated ==
    [][ParameterCall(call') =>
          ChecksShortCircuit(fs, call', ret', EnabledChecks(call'.flags, FALSE))]_vars

\* C22, amended: the input, output and peg checks run exactly when their
\* flags are set; the comparison of output and input runs, as the first
\* part of the output check, when its flag and the output flag are both
\* set; the order is input, output, peg; the first failing check ends the
\* call; with the default flags all four checks run.
C22_FlagsSelectChecks ==
    [][ParameterCall(call') =>
          /\ ChecksShortCircuit(fs, call', ret', EnabledChecks(call'.flags, TRUE))
          /\ (call'.flags = DEFAULT_ENCRYPT_DECRYPT_FLAGS /\ ret'.ok) =>
                ret'.ran = <<"input", "different", "output", "pegs">>]_vars

C22_Witness ==
    /\ call.op = "validate_operation_parameters"
    /\ call.flags = DEFAULT_ENCRYPT_DECRYPT_FLAGS
    /\ call.fault = NoFault
    /\ call.input = SpelledA /\ call.output = SpelledLink
    /\ call.pegs = 0
    /\ ~ret.ok
    /\ ret.ran = <<"input", "different">>

\* C23: ensure_private_vault_exists creates the vault directory when it is
\* absent, succeeds and changes nothing when it is there, and has no further
\* effect when called again; when the vault path is not a directory it
\* fails, and move_to_vault and retrieve_from_vault then fail and leave
\* every file where it is.
C23_EnsureVaultIdempotent ==
    [][/\ (call'.op = "ensure_private_vault_exists" /\ call'.fault = NoFault) =>
            LET again == ensure_private_vault_exists(fs', NoFault)
            IN  /\ ~exists(fs, VaultEntry) =>
                      (ret' = TRUE /\ fs' = Put(fs, VaultEntry, DirNode(TRUE)))
                /\ (exists(fs, VaultEntry) /\ is_directory(fs, PRIVATE_VAULT_DIR)) =>
                      (ret' = TRUE /\ fs' = fs)
                /\ (exists(fs, VaultEntry) /\ ~is_directory(fs, PRIVATE_VAULT_DIR)) =>
                      (ret' = FALSE /\ fs' = fs)
                /\ again.ok = ret' /\ again.fs = fs'
       /\ (/\ call'.op \in {"move_to_vault", "retrieve_from_vault"}
           /\ exists(fs, VaultEntry) /\ ~is_directory(fs, PRIVATE_VAULT_DIR)) =>
               (ret' = FALSE /\ fs' = fs)]_vars

C23_Witness ==
    /\ call.op = "move_to_vault"
    /\ call.fault = NoFault
    /\ ret = FALSE
    /\ is_regular_file(fs, VaultEntry)
    /\ is_regular_file(fs, call.input)
    /\ history # <<>>

\* A call of encrypt_file or decrypt_file whose transform starts and gets
\* as far as the write that the environment makes fail.
C24_WriteFails ==
    LET c == call'
        at == c.fault.at
    IN  /\ c.op \in {"encrypt_file", "decrypt_file"}
        /\ c.fault.kind = "write"
        /\ c.input # c.output
        /\ IF c.op = "encrypt_file"
           THEN /\ ~starts_with_enc(filename(c.input))
                /\ validate_encryption_params_new(fs, c.input, c.pegs, c.fault).ok
           ELSE can_open_in(fs, c.input) /\ can_open_out(fs, c.output)
        /\ file_size(fs, c.input) > (at - 1) * BUFFER_SIZE

Procs == {1, 2}
Source(p) == IF p = 1 THEN Path(".", NameA) ELSE Path(SUB_DIR, NameA)
RaceDestination == InVault(NameA)

RaceCall(pc, vault_seen) ==
    [op |-> "move_to_vault", pc |-> pc, vault_seen |-> vault_seen]

RaceInit ==
    /\ \E vault \in {"absent", "empty"} : fs = InitFs("rw", vault)
    /\ history = <<>>
    /\ call = [p \in Procs |-> RaceCall("start", FALSE)]
    /\ ret = [p \in Procs |-> FALSE]
    /\ nops = 0
    /\ XIdle

RaceStep(p, pc, seen, f, h, r) ==
    /\ call' = [call EXCEPT ![p] = RaceCall(pc, seen)]
    /\ ret' = [ret EXCEPT ![p] = r]
    /\ fs' = f
    /\ history' = h
    /\ UNCHANGED nops
    /\ UNCHANGED xvars

\* ensure_private_vault_exists: exists(vault_path).
race_vault_exists(p) ==
    /\ call[p].pc = "start"
    /\ RaceStep(p, "vault_checked", exists(fs, VaultEntry), fs, history, FALSE)

\* ensure_private_vault_exists: create_directory, which does nothing and
\* reports no error when the directory is there by now; or is_directory.
race_ensure_vault(p) ==
    /\ call[p].pc = "vault_checked"
    /\ IF ~call[p].vault_seen
       THEN RaceStep(p, "ensured", FALSE,
                     IF exists(fs, VaultEntry) THEN fs ELSE Put(fs, VaultEntry, DirNode(TRUE)),
                     history, FALSE)
       ELSE IF is_directory(fs, PRIVATE_VAULT_DIR)
       THEN RaceStep(p, "ensured", TRUE, fs, history, FALSE)
       ELSE RaceStep(p, "done", TRUE, fs, history, FALSE)

\* exists(original_filepath) and is_regular_file(original_filepath).
race_check_source(p) ==
    /\ call[p].pc = "ensured"
    /\ IF ~exists(fs, Source(p)) \/ ~is_regular_file(fs, Source(p))
       THEN RaceStep(p, "done", call[p].vault_seen, fs, history, FALSE)
       ELSE RaceStep(p, "source_checked", call[p].vault_seen, fs, history, FALSE)

\* exists(destination_in_vault), found absent.
race_destination_absent(p) ==
    /\ call[p].pc = "source_checked"
    /\ ~exists(fs, RaceDestination)
    /\ RaceStep(p, "destination_checked", call[p].vault_seen, fs, history, FALSE)

\* exists(destination_in_vault), found present: return false.
race_destination_present(p) ==
    /\ call[p].pc = "source_checked"
    /\ exists(fs, RaceDestination)
    /\ RaceStep(p, "done", call[p].vault_seen, fs, history, FALSE)

race_rename(p) ==
    /\ call[p].pc = "destination_checked"
    /\ RaceStep(p, "renamed", call[p].vault_seen,
                rename(fs, Source(p), RaceDestination), history, FALSE)

\* log_event("VAULT_STORE", ...) and return true.
race_log_and_return(p) ==
    /\ call[p].pc = "renamed"
    /\ RaceStep(p, "done", call[p].vault_seen, fs,
                log_event(NoFault, history, "VAULT_STORE", Path("", filename(Source(p))), NoPath),
                TRUE)

RaceNext ==
    \E p \in Procs :
        \/ race_vault_exists(p)
        \/ race_ensure_vault(p)
        \/ race_check_source(p)
        \/ race_destination_absent(p)
        \/ race_destination_present(p)
        \/ race_rename(p)
        \/ race_log_and_return(p)

SpecRace == RaceInit /\ [][RaceNext]_vars

\* The contents of the two source files, and whether one of them is in no
\* file any more.
SourceData(p) == IF p = 1 THEN DataLong ELSE DataShort
Lost(p) == \A q \in DOMAIN fs : fs[q].kind = "file" => fs[q].data # SourceData(p)
PassedCheck(p) == call[p].pc \in {"destination_checked", "renamed"} \/ (call[p].pc = "done" /\ ret[p])

\* C25: two move_to_vault invocations for different sources of one base
\* name, interleaved at the filesystem calls, can both pass the existence
\* check before either renames; then both return success and the content of
\* one of the files is lost from the vault.  Content is lost in this way
\* only: as long as the invocations do not both pass the check, nothing is
\* overwritten.
C25_RaceLosesAFile ==
    /\ (\E p \in Procs : Lost(p)) => (\A p \in Procs : PassedCheck(p))
    /\ (\A p \in Procs : call[p].pc = "done" /\ ret[p]) =>
          /\ \E p \in Procs : Lost(p) /\ ~Lost(3 - p)
          /\ \A p \in Procs : ~exists(fs, Source(p))
          /\ is_regular_file(fs, RaceDestination)
          /\ Len(history) = 2
    /\ \A p \in Procs :
          (call[p].pc = "done" /\ ~ret[p]) =>
              (is_regular_file(fs, Source(p)) /\ fs[Source(p)].data = SourceData(p))

C25_Witness ==
    /\ \A p \in Procs : call[p].pc = "done" /\ ret[p]
    /\ Lost(1)
    /\ fs[RaceDestination].data = SourceData(2)


\* C26: the chunked transform of a file and the transform in memory agree:
\* for every content x, shorter than a chunk, a whole number of chunks or
\* with a partial last chunk, and every peg in range, the bytes that
\* encrypt_file and decrypt_file write are process_content_caesar of the
\* bytes they read, in the same mode.
C26_ChunkedEqualsInMemory ==
    /\ xpc \in {"file_enc", "file_dec"} => xenc = process_content_caesar(xin, xpeg, TRUE)
    /\ xpc = "file_dec" => xdec = process_content_caesar(xenc, xpeg, FALSE)

C26_Witness ==
    /\ xpc = "file_dec"
    /\ Len(xin) = BUFFER_SIZE + 1
    /\ xin[BUFFER_SIZE + 1] = 255
    /\ xenc = process_content_caesar(xin, xpeg, TRUE)
    /\ xenc[BUFFER_SIZE + 1] = xpeg - 1
    /\ xdec = process_content_caesar(xenc, xpeg, FALSE)


\* The files of directory d, with their contents.
DirectoryListing(f, d) == {<<q.name, f[q]>> : q \in {r \in DOMAIN f : r.dir = d}}

\* C27: the writability probe leaves no trace: when validate_output_file,
\* validate_derived_output_file or validate_destination_path returns, with
\* success or failure, the probed directory holds the same files with the
\* same contents as before the call, whatever files it held.
C27_ProbeLeavesNoTrace ==
    [][(call'.op \in {"validate_output_file", "validate_derived_output_file",
                      "validate_destination_path"}) =>
          LET d == parent_dir(call'.output.lex)
          IN  DirectoryListing(fs', d) = DirectoryListing(fs, d)]_vars


\* C28: vault entries are immutable once stored: whatever paths the caller
\* passes to encrypt_file, decrypt_file, move_to_vault and
\* retrieve_from_vault, no vault entry is removed or changed, and a new one
\* appears only through a successful move_to_vault (that of encrypt_file
\* included).
C28_VaultEntriesImmutable ==
    [][(call'.op \in {"encrypt_file", "decrypt_file", "move_to_vault", "retrieve_from_vault"}) =>
          /\ \A q \in VaultFiles(fs) : is_regular_file(fs', q) /\ fs'[q] = fs[q]
          /\ \A q \in VaultFiles(fs') \ VaultFiles(fs) :
                /\ call'.op \in {"encrypt_file", "move_to_vault"}
                /\ q = InVault(filename(call'.input))
                /\ ~exists(fs', call'.input)
                /\ fs'[q] = fs[call'.input]]_vars


(***************************************************************************)
(* One file encrypted again and again: encrypt_file on ./a, and the user   *)
(* putting a new file at that path, up to MaxCalls steps.                  *)
(***************************************************************************)
MaxCalls == 4

RewritePath == Path(".", NameA)
RewriteData == UserData \cup {DataVault}

RewriteInit ==
    /\ fs = Put(EmptyFs, RewritePath, FileNode(DataLong))
    /\ history = <<>>
    /\ call = NoCall
    /\ ret = TRUE
    /\ nops = 0
    /\ XIdle

rewrite_encrypt_file(pegs) ==
    /\ nops < MaxCalls
    /\ Returns(encrypt_file(fs, history, RewritePath, pegs, NoFault),
               CallRec("encrypt_file", RewritePath, derived_output(RewritePath), pegs, NoFault))

rewrite_user_writes(data) ==
    /\ nops < MaxCalls
    /\ Returns(Result(TRUE, Put(fs, RewritePath, FileNode(data)), history),
               CallRec("user_writes", RewritePath, NoPath, 0, NoFault))

RewriteNext ==
    \/ \E k \in {MIN_PEG, MAX_PEG} : rewrite_encrypt_file(k)
    \/ \E d \in RewriteData : rewrite_user_writes(d)

SpecRewrite == RewriteInit /\ [][RewriteNext]_vars

\* C29: encrypt_file does not refuse a derived output that exists: a
\* regular file enc_<base> is truncated and overwritten with the new
\* ciphertext.  When the vault holds <base> already (the file was encrypted
\* before and a new file put at its path), the call returns success with a
\* VAULT_FAIL event, the new original stays in place and the vault keeps
\* the first one.
C29_ExistingOutputOverwritten ==
    [][(/\ call'.op = "encrypt_file"
        /\ validate_input_file(fs, call'.input, NoFault)
        /\ validate_peg_value(call'.pegs)
        /\ is_regular_file(fs, call'.output)) =>
          /\ ret' = TRUE
          /\ is_regular_file(fs', call'.output)
          /\ fs'[call'.output].data
                = process_content_caesar(fs[call'.input].data, call'.pegs, TRUE)
          /\ exists(fs, InVault(filename(call'.input))) =>
                /\ LastEvent(history') = "VAULT_FAIL"
                /\ Len(history') = Len(history) + 2
                /\ SameAt(fs, fs', call'.input)
                /\ SameAt(fs, fs', InVault(filename(call'.input)))]_vars

\* a was encrypted and vaulted, a new a was put at the path and encrypted.
C29_Witness ==
    /\ call.op = "encrypt_file"
    /\ ret = TRUE
    /\ Len(history) = 4
    /\ history[1].kind = "ENCRYPT" /\ history[2].kind = "VAULT_STORE"
    /\ history[3].kind = "ENCRYPT" /\ history[4].kind = "VAULT_FAIL"
    /\ fs[InVault(NameA)].data = DataLong
    /\ fs[RewritePath].data = DataShort
    /\ fs[call.output].data = process_content_caesar(DataShort, call.pegs, TRUE)

(***************************************************************************)
(* The window's state machine: class UIManager.  In this specification ret *)
(* holds the fields of the UIManager object after the last event and call  *)
(* the event; fs and history are changed by the buttons that run a file    *)
(* operation, at most MaxOps times.  The text the user types in a field is *)
(* an input of the button that reads it; the character buffers themselves  *)
(* are left out, history_content_buf excepted.  The menu bar is drawn, as  *)
(* in draw_ui, whether or not a modal is open; the screen's own buttons    *)
(* only when none is.                                                      *)
(***************************************************************************)
ADMIN_PASSWORD == "supersecretpassword123"
check_admin_password(password_attempt) == password_attempt = ADMIN_PASSWORD

Screens == {"MainMenu", "Encrypt", "Decrypt", "GetItem", "Compare", "History"}
Modals == {"None", "AdminPasswordPrompt", "CompareFilesPrompt"}

UIManager(screen, requiring, modal, admin, message, content) ==
    [current_screen |-> screen, screen_requiring_password |-> requiring,
     current_modal |-> modal, admin_access_granted |-> admin,
     gui_message |-> message, history_content_buf |-> content]

is_modal_active(g) == g.current_modal # "None"

set_main_gui_message(g, message) == [g EXCEPT !.gui_message = message]

\* The buffer takes the lines of the history file (the placeholder texts of
\* an empty or unreadable file stand as no lines).
load_history_content(g, h) == [g EXCEPT !.history_content_buf = h]

clear_all_persistent_state(g) == [g EXCEPT !.history_content_buf = <<>>]

go_to_screen_KeepsAdmin(g, screen, h) ==
    LET g1 == [g EXCEPT !.gui_message = IF g.current_screen # screen THEN "" ELSE @,
                        !.current_screen = screen]
    IN  IF screen = "MainMenu"
        THEN set_main_gui_message(clear_all_persistent_state(g1), "Welcome to Cipher GUI!")
        ELSE IF screen = "History" /\ g1.admin_access_granted
        THEN load_history_content(g1, h)
        ELSE g1

go_to_screen(g, screen, h) ==
    LET g1 == [g EXCEPT !.gui_message = IF g.current_screen # screen THEN "" ELSE @,
                        !.current_screen = screen]
    IN  IF screen = "MainMenu"
        THEN set_main_gui_message(
                 clear_all_persistent_state([g1 EXCEPT !.admin_access_granted = FALSE]),
                 "Welcome to Cipher GUI!")
        ELSE IF screen = "History" /\ g1.admin_access_granted
        THEN load_history_content(g1, h)
        ELSE g1

request_admin_access_for_screen(g, target_screen) ==
    [g EXCEPT !.screen_requiring_password = target_screen,
              !.current_modal = "AdminPasswordPrompt",
              !.gui_message = ""]

open_compare_files_modal(g) ==
    [g EXCEPT !.current_modal = "CompareFilesPrompt", !.gui_message = ""]

AdminRestrictedMenuItem(g, target_screen, h) ==
    IF ~g.admin_access_granted
    THEN request_admin_access_for_screen(g, target_screen)
    ELSE go_to_screen(g, target_screen, h)

\* One button of the main menu's table: [screen_to_open, modal_to_open,
\* requires_admin].
MenuItem(screen_to_open, modal_to_open, requires_admin) ==
    [screen_to_open |-> screen_to_open, modal_to_open |-> modal_to_open,
     requires_admin |-> requires_admin]

menu_items ==
    {MenuItem("Encrypt", "None", FALSE),
     MenuItem("Decrypt", "None", FALSE),
     MenuItem("GetItem", "None", TRUE),
     MenuItem("MainMenu", "CompareFilesPrompt", FALSE),
     MenuItem("History", "None", TRUE)}

main_menu_button(g, item, h) ==
    IF item.requires_admin /\ ~g.admin_access_granted
    THEN request_admin_access_for_screen(g, item.screen_to_open)
    ELSE IF item.modal_to_open # "None"
    THEN [g EXCEPT !.current_modal = item.modal_to_open, !.gui_message = ""]
    ELSE go_to_screen(g, item.screen_to_open, h)

logout_admin(g, h) ==
    LET g1 == set_main_gui_message([g EXCEPT !.admin_access_granted = FALSE],
                                   "Admin logged out.")
    IN  IF g.current_screen \in {"History", "GetItem"}
        THEN go_to_screen(g1, "MainMenu", h)
        ELSE g1

password_login(g, password_attempt, h) ==
    IF check_admin_password(password_attempt)
    THEN go_to_screen(
             set_main_gui_message([g EXCEPT !.admin_access_granted = TRUE,
                                            !.current_modal = "None"],
                                  "Admin access granted."),
             g.screen_requiring_password, h)
    ELSE set_main_gui_message(g, "Incorrect admin password.")

close_modal(g) == [g EXCEPT !.current_modal = "None", !.gui_message = ""]

\* The Compare button of the verify modal; yields [ui, history].
compare_files_modal(g, f, h, filled, vault_filename, external_enc_path, pegs) ==
    LET vault_file_full_path == InVault(vault_filename)
        g0 == [g EXCEPT !.gui_message = "", !.current_modal = "None"]
    IN  IF ~filled
        THEN [ui |-> set_main_gui_message(g0, "Error: All fields must be provided."),
              history |-> h]
        ELSE IF ~is_regular_file(f, vault_file_full_path) \/ ~is_regular_file(f, external_enc_path)
        THEN [ui |-> set_main_gui_message(g0, "Error: file not found."), history |-> h]
        ELSE LET v == load_file_content_to_string(f, h, vault_file_full_path,
                          MAX_TEXT_COMPARE_DISPLAY_CHARS, 1, NoSideFault)
                 e == load_file_content_to_string(f, v.history, external_enc_path,
                          MAX_TEXT_COMPARE_DISPLAY_CHARS, 2, NoSideFault)
                 res == compare_string_contents(
                            process_content_caesar(v.content, pegs, TRUE), e.content)
             IN  [ui |-> set_main_gui_message(g0,
                            IF res.first_diff_offset # -1
                            THEN "Verification Result: First diff."
                            ELSE "Verification Result: Contents appear identical."),
                  history |-> e.history]

GuiEvent(op) == CallRec(op, NoPath, NoPath, 0, NoFault)

GuiPath == Path(".", NameA)
GuiPegs == {MIN_PEG, MAX_PEG}
PasswordAttempts == {ADMIN_PASSWORD, ""}

GuiInit ==
    /\ fs = Put(EmptyFs, GuiPath, FileNode(DataLong))
    /\ history = <<>>
    /\ call = NoCall
    /\ ret = go_to_screen(UIManager("MainMenu", "MainMenu", "None", FALSE,
                                    "Welcome to Cipher GUI!", <<>>), "MainMenu", <<>>)
    /\ nops = 0
    /\ XIdle

\* An event that changes the window only.
Shown(g, op) ==
    /\ ret' = g
    /\ call' = GuiEvent(op)
    /\ UNCHANGED <<fs, history, nops, xvars>>

\* A button that runs a file operation with result r and shows message.
Ran(r, c, ok_message, fail_message) ==
    /\ nops < MaxOps
    /\ nops' = nops + 1
    /\ fs' = r.fs
    /\ history' = r.history
    /\ call' = c
    /\ ret' = set_main_gui_message(ret, IF r.ok THEN ok_message ELSE fail_message)
    /\ UNCHANGED xvars

menu_main_menu ==
    /\ ret.current_modal \in Modals
    /\ Shown(go_to_screen(ret, "MainMenu", history), "menu_main_menu")
menu_encrypt_file ==
    /\ ret.current_modal \in Modals
    /\ Shown(go_to_screen(ret, "Encrypt", history), "menu_encrypt_file")
menu_decrypt_file ==
    /\ ret.current_modal \in Modals
    /\ Shown(go_to_screen(ret, "Decrypt", history), "menu_decrypt_file")
menu_verify_encrypted_file ==
    /\ ret.current_modal \in Modals
    /\ Shown(open_compare_files_modal(ret), "menu_verify_encrypted_file")
menu_retrieve_original_file ==
    /\ ret.current_modal \in Modals
    /\ Shown(AdminRestrictedMenuItem(ret, "GetItem", history), "menu_retrieve_original_file")
menu_view_history ==
    /\ ret.current_modal \in Modals
    /\ Shown(AdminRestrictedMenuItem(ret, "History", history), "menu_view_history")

menu_logout_admin ==
    /\ ret.admin_access_granted
    /\ Shown(logout_admin(ret, history), "menu_logout_admin")

menu_login_admin ==
    /\ ~ret.admin_access_granted
    /\ Shown(request_admin_access_for_screen(ret, ret.current_screen), "menu_login_admin")

draw_main_menu_screen(item) ==
    /\ ~is_modal_active(ret)
    /\ ret.current_screen = "MainMenu"
    /\ Shown(main_menu_button(ret, item, history), "main_menu_button")

back_to_main_menu ==
    /\ ~is_modal_active(ret)
    /\ ret.current_screen \in {"Encrypt", "Decrypt", "GetItem", "Compare", "History"}
    /\ Shown(go_to_screen(ret, "MainMenu", history), "back_to_main_menu")

encrypt_button(pegs) ==
    /\ ~is_modal_active(ret)
    /\ ret.current_screen = "Encrypt"
    /\ Ran(encrypt_file(fs, history, GuiPath, pegs, NoFault),
           CallRec("encrypt_button", GuiPath, derived_output(GuiPath), pegs, NoFault),
           "Encryption successful!", "Operation failed.")

decrypt_button(pegs) ==
    /\ ~is_modal_active(ret)
    /\ ret.current_screen = "Decrypt"
    /\ Ran(decrypt_file(fs, history, derived_output(GuiPath), GuiPath, pegs, NoFault),
           CallRec("decrypt_button", derived_output(GuiPath), GuiPath, pegs, NoFault),
           "Decryption successful!", "Operation failed.")

retrieve_button(filled) ==
    /\ ~is_modal_active(ret)
    /\ ret.current_screen = "GetItem"
    /\ IF ~filled
       THEN Shown(set_main_gui_message(ret, "Error: Both fields are required."),
                  "retrieve_button")
       ELSE Ran(retrieve_from_vault(fs, history, NameA, GuiPath, NoFault),
                CallRec("retrieve_button", InVault(NameA), GuiPath, 0, NoFault),
                "File retrieval successful!", "File retrieval failed.")

refresh_history ==
    /\ ~is_modal_active(ret)
    /\ ret.current_screen = "History"
    /\ Shown(set_main_gui_message(load_history_content(ret, history), "History refreshed."),
             "refresh_history")

draw_admin_password_prompt_modal(password_attempt) ==
    /\ ret.current_modal = "AdminPasswordPrompt"
    /\ Shown(password_login(ret, password_attempt, history), "password_login")

cancel_admin_password_prompt ==
    /\ ret.current_modal = "AdminPasswordPrompt"
    /\ Shown(close_modal(ret), "password_cancel")

draw_compare_files_modal(filled, pegs) ==
    /\ ret.current_modal = "CompareFilesPrompt"
    /\ LET r == compare_files_modal(ret, fs, history, filled, NameA,
                                    derived_output(GuiPath), pegs)
       IN  /\ ret' = r.ui
           /\ history' = r.history
           /\ call' = GuiEvent("compare_button")
           /\ UNCHANGED <<fs, nops, xvars>>

cancel_compare_files_modal ==
    /\ ret.current_modal = "CompareFilesPrompt"
    /\ Shown(close_modal(ret), "compare_cancel")

GuiNext ==
    \/ menu_main_menu
    \/ menu_encrypt_file
    \/ menu_decrypt_file
    \/ menu_verify_encrypted_file
    \/ menu_retrieve_original_file
    \/ menu_view_history
    \/ menu_logout_admin
    \/ menu_login_admin
    \/ \E item \in menu_items : draw_main_menu_screen(item)
    \/ back_to_main_menu
    \/ \E k \in GuiPegs : encrypt_button(k)
    \/ \E k \in GuiPegs : decrypt_button(k)
    \/ \E filled \in BOOLEAN : retrieve_button(filled)
    \/ refresh_history
    \/ \E a \in PasswordAttempts : draw_admin_password_prompt_modal(a)
    \/ cancel_admin_password_prompt
    \/ \E filled \in BOOLEAN, k \in GuiPegs : draw_compare_files_modal(filled, k)
    \/ cancel_compare_files_modal

SpecGui == GuiInit /\ [][GuiNext]_vars

AdminScreens == {"GetItem", "History"}
ReturnEvents == {"menu_main_menu", "back_to_main_menu"}

\* C30: after any sequence of menu, button and modal events the current
\* screen is GetItem or History only while admin access is granted; every
\* return to the main menu leaves the window on MainMenu with access
\* revoked, and Logout Admin revokes access and leaves the window on
\* neither GetItem nor History.
C30_AdminScreensNeedAccess ==
    /\ [](ret.current_screen \in AdminScreens => ret.admin_access_granted)
    /\ [][/\ call'.op \in ReturnEvents =>
                /\ ret'.current_screen = "MainMenu"
                /\ ~ret'.admin_access_granted
          /\ call'.op = "menu_logout_admin" =>
                /\ ~ret'.admin_access_granted
                /\ ret'.current_screen \notin AdminScreens]_vars

\* Logout Admin was chosen on GetItem or History: only then does the
\* welcome text replace "Admin logged out.".
C30_Witness ==
    /\ call.op = "menu_logout_admin"
    /\ ret.current_screen = "MainMenu"
    /\ ret.gui_message = "Welcome to Cipher GUI!"
    /\ ~ret.admin_access_granted
    /\ Len(history) > 0

====
